---- MODULE Spec2Model ----
(***************************************************************************)
(* starview: the asset-resolution and bulk-download engine.                *)
(*   Fetcher    (crates/starview_core/src/fetch/fetcher.rs)                *)
(*   Downloader (crates/starview_core/src/download/download.rs)            *)
(*   FetchCache (crates/starview_core/src/cache/models.rs)                 *)
(*   write_file (crates/starview_common/src/fs.rs)                         *)
(*   AssetPaths (crates/starview_net/src/models.rs)                        *)
(* Option<T> values are sequences of length 0 (None) or 1 (Some).          *)
(***************************************************************************)
EXTENDS Integers, Sequences, FiniteSets, TLC

(* ---------------------------- bounds ----------------------------------- *)
\* most archive entries one served manifest (or a merge of two) lists
MaxArchives == 2
\* largest concurrency limit a caller passes (0 is included)
MaxConc == 2
\* largest retry_count of a DownloadConfig built outside the Fetcher
MaxRetry == 2
\* longest url list of a DownloadConfig built outside the Fetcher
MaxUrls == 3

(* ---------------------------- constants -------------------------------- *)
DEFAULT_RETRY_COUNT == 3
\* DownloadConfig::default: retry_delay, in milliseconds
DEFAULT_RETRY_DELAY == 500

Range(s) == {s[i] : i \in 1..Len(s)}

\* the device types a Fetcher is configured with here; a Fetcher configured
\* with Ios runs as one configured with Android does, the device header apart
DeviceTypes == {"Android", "All"}
\* the versions load answers with; the manifests served target v1, so that a
\* manifest's target is the version asked for (v1) or another one (v2)
Versions == {"v1", "v2"}
TargetVersions == {"v1"}
Udids == {"U1"}
Hashes == {"h1", "h2"}
ValidLocs == {"a", "b"}
BadLoc == "::"

\* url::Url::from_str succeeds on a well-formed absolute location only
UrlParses(loc) == loc \in ValidLocs

\* the archive entries a served manifest is built from
Entries ==
  { [location |-> "a", size |-> 1, sha256 |-> "h1"],
    [location |-> "a", size |-> 2, sha256 |-> "h2"],
    [location |-> "b", size |-> 2, sha256 |-> "h1"],
    [location |-> BadLoc, size |-> 1, sha256 |-> "h2"] }

ArchiveSeqs(n) == UNION {[1..k -> Entries] : k \in 0..n}

RECURSIVE CountArchives(_)
CountArchives(diffs) ==
  IF diffs = <<>> THEN 0
  ELSE Len(Head(diffs).archive) + CountArchives(Tail(diffs))

TotalArchives(m) == Len(m.full.archive) + CountArchives(m.diff)

\* AssetPaths as the service answers asset/get_path
ServedDiffs ==
  {<<>>} \cup
  { <<[version |-> "v1", original_version |-> "v0", archive |-> a]>> :
      a \in ArchiveSeqs(MaxArchives) \ {<<>>} }

ServedManifests ==
  { m \in [ info : [client_asset_version : {"v0"}, target_asset_version : TargetVersions],
            full : [version : {"v1"}, archive : ArchiveSeqs(MaxArchives)],
            diff : ServedDiffs ] :
      TotalArchives(m) <= MaxArchives }

\* AssetVersionInfo as the service answers asset/version_info for a platform
ServedVersionInfo(device) ==
  [files_list |-> IF device = "Android" THEN "a" ELSE "b"]


(* ------------------- AssetPaths::extend (models.rs) -------------------- *)
\* the archives kept when a HashMap keyed by sha256 is filled with or_insert
RECURSIVE FirstBySha(_, _)
FirstBySha(archives, seen) ==
  IF archives = <<>> THEN <<>>
  ELSE IF Head(archives).sha256 \in seen
       THEN FirstBySha(Tail(archives), seen)
       ELSE <<Head(archives)>> \o
            FirstBySha(Tail(archives), seen \cup {Head(archives).sha256})

\* HashMap::into_values yields the values in an unspecified order
IntoValues(S) == { t \in [1..Cardinality(S) -> S] : Range(t) = S }

RECURSIVE ConcatArchives(_)
ConcatArchives(diffs) ==
  IF diffs = <<>> THEN <<>>
  ELSE Head(diffs).archive \o ConcatArchives(Tail(diffs))

\* the diffs of the chain whose version is the key k
DiffsOfKey(chain, k) == SelectSeq(chain, LAMBDA d : d.version = k)

\* the sets of merged diff records, one record per diff_map key, the order of
\* each record's archives being into_values' choice
MergedDiffSets(chain) ==
  LET keys == {chain[i].version : i \in 1..Len(chain)}
      kept(k) == Range(FirstBySha(ConcatArchives(DiffsOfKey(chain, k)), {}))
      choices == { f \in [keys -> UNION {IntoValues(kept(k)) : k \in keys}] :
                     \A k \in keys : f[k] \in IntoValues(kept(k)) }
  IN { { [version |-> k,
          original_version |-> DiffsOfKey(chain, k)[1].original_version,
          archive |-> f[k]] : k \in keys } : f \in choices }

\* AssetPaths::extend(self, with): every manifest the merge can return
extend(self, with) ==
  LET fulls == Range(FirstBySha(self.full.archive \o with.full.archive, {}))
  IN { [info |-> self.info,
        full |-> [version |-> self.full.version, archive |-> fa],
        diff |-> ds] :
       fa \in IntoValues(fulls),
       ds \in UNION {IntoValues(D) : D \in MergedDiffSets(self.diff \o with.diff)} }

(* ----------------------------- state ----------------------------------- *)
VARIABLES
  file,          \* the cache file on disk: [st, rec]
  pc,            \* position of the process / of the current Fetcher operation
  op,            \* the operation in progress
  client,        \* WafuriAPIClient
  cache,         \* Fetcher.cache (FetchCache), meaningful while pc # "none"
  reqVersion,    \* asset_version of get_asset_info while it resolves
  info,          \* what get_asset_info returned: [src, version_info, asset_paths]
  result,        \* result of the last finished operation
  reqs,          \* requests sent to the upstream service since the Fetcher
                 \* was built or, in an operation, by the operation
  fetchState,    \* latest value of the Fetcher's watch channel
  wcont,         \* which write_cache call is in progress
  start,         \* what the cache file was when the operation started
  hashesAtStart, \* cache.downloaded_asset_hashes when the operation started
  work,          \* locals of download_assets
  dlpc,          \* position of Downloader::download
  cfg,           \* DownloadConfig
  units,         \* the download units, in input order
  results,       \* download_results, in completion order
  dlState,       \* latest value of the Downloader's watch channel
  dlChanged,     \* the bridge's receiver has an unseen value
  dlLog,         \* every value published on the Downloader's channel
  bridgeDone,    \* bridge_download_state has returned
  obs,           \* the task watching the Fetcher's channel and its receiver
  calls,         \* the upstream calls of get_asset_info that have answered
  eval           \* a function of the program applied on its own: [f, arg, out]

fvars == <<file, pc, op, client, cache, reqVersion, calls, info, result, reqs,
           fetchState, obs, wcont, start, hashesAtStart, work>>
dvars == <<dlpc, cfg, units, results, dlState, dlLog>>
bvars == <<dlChanged, bridgeDone>>
vars == <<fvars, dvars, bvars, eval>>

None == <<>>
Some(x) == <<x>>

NoClient == [uuid |-> "", device_type |-> "Android", login_token |-> None,
             short_uuid |-> None, viewer_id |-> None]

\* FetchCache::new
FetchCacheNew(udid, device_type) ==
  [device_type |-> device_type, udid |-> udid, version_info |-> <<>>,
   asset_paths |-> None, downloaded_asset_hashes |-> {}]

\* the record kept of the cache file an operation found: whether the
\* operation has opened (truncated) the file since, the file's state, whether
\* its record equalled the Fetcher's cache but for the hash set, and its hash set
NoStart == [written |-> FALSE, st |-> "missing", same |-> FALSE, hashes |-> {}]

ButHashes(c) == [c EXCEPT !.downloaded_asset_hashes = {}]

StartOf(f, c) ==
  [written |-> FALSE, st |-> f.st,
   same |-> f.st = "valid" /\ ButHashes(f.rec[1]) = ButHashes(c),
   hashes |-> IF f.st = "valid" THEN f.rec[1].downloaded_asset_hashes ELSE {}]

\* the cache file is, byte for byte, what the operation found
FileUnchanged ==
  \/ ~start.written
  \/ /\ file.st = start.st
     /\ file.st = "valid" =>
          /\ start.same
          /\ file.rec[1].downloaded_asset_hashes = start.hashes

NoOp == [name |-> "none", concurrency |-> 0]
NoInfo == [src |-> "none", version_info |-> <<>>, asset_paths |-> None]
NoWork == [urls |-> <<>>, map |-> {}, newHashes |-> {}, total |-> 0, err |-> FALSE]
NoCfg == [urls |-> <<>>, concurrency |-> 0, retry_count |-> 0]
FState(o, s, n) == [op |-> o, st |-> s, arg |-> n]
DState(s, n) == [st |-> s, arg |-> n]
\* no task watches the Fetcher's channel: the receiver is dropped, or kept
\* and never read (--quiet)
NoObs == [cmd |-> "none", rx |-> "none", missed |-> FALSE]
NoEval == [f |-> "none", arg |-> <<>>, out |-> <<>>]

FileMissing == [st |-> "missing", rec |-> None]
FileTruncated == [st |-> "truncated", rec |-> None]
FileOf(c) == [st |-> "valid", rec |-> Some(c)]

DlIdle ==
  /\ dlpc = "none" /\ cfg = NoCfg /\ units = <<>> /\ results = <<>>
  /\ dlState = DState("NotStarted", 0) /\ dlLog = <<>>
  /\ dlChanged = FALSE /\ bridgeDone = FALSE

Init ==
  /\ file = FileMissing
  /\ pc = "none" /\ op = NoOp
  /\ client = NoClient
  /\ cache = FetchCacheNew("", "Android")
  /\ reqVersion = "" /\ info = NoInfo /\ result = "none" /\ reqs = <<>>
  /\ fetchState = FState("None", "None", 0) /\ obs = NoObs
  /\ calls = {} /\ eval = NoEval
  /\ wcont = "none"
  /\ start = NoStart /\ hashesAtStart = {}
  /\ work = NoWork
  /\ DlIdle


\* AssetPaths::extend applied on its own to the manifests in eval.arg: the
\* result of extend(arg[1], arg[2]) goes to eval.out.ab, that of
\* extend(arg[2], arg[1]) to eval.out.ba
NoOut == [ab |-> None, ba |-> None]

ExtendAB ==
  /\ pc = "extend" /\ eval.out.ab = None
  /\ \E r \in extend(eval.arg[1], eval.arg[2]) :
       eval' = [eval EXCEPT !.out.ab = Some(r)]
  /\ UNCHANGED <<fvars, dvars, bvars>>

ExtendBA ==
  /\ pc = "extend" /\ eval.out.ba = None
  /\ \E r \in extend(eval.arg[2], eval.arg[1]) :
       eval' = [eval EXCEPT !.out.ba = Some(r)]
  /\ UNCHANGED <<fvars, dvars, bvars>>

(* --------------- Downloader::get_url_out_path (download.rs) ------------ *)
\* a string is a sequence of characters; Sep is the separator of url paths
\* and of file paths
Sep == "/"

\* str::strip_prefix: Some(rest) when str starts with prefix, None otherwise
strip_prefix(str, prefix) ==
  IF Len(prefix) <= Len(str) /\ SubSeq(str, 1, Len(prefix)) = prefix
  THEN Some(SubSeq(str, Len(prefix) + 1, Len(str)))
  ELSE None

\* PathBuf::join: a path that starts with the separator replaces the base
join(base, path) ==
  IF path # <<>> /\ path[1] = Sep
  THEN [base |-> Sep, rest |-> Tail(path)]
  ELSE [base |-> base, rest |-> path]

\* Downloader::get_url_out_path(url, out_dir, strip_prefix), url_path being
\* url.path() and prefix the Option
get_url_out_path(url_path, out_dir, prefix) ==
  LET stripped_url_path ==
        IF prefix # None /\ strip_prefix(url_path, prefix[1]) # None
        THEN strip_prefix(url_path, prefix[1])[1]
        ELSE url_path
      relative_url_path ==
        IF strip_prefix(stripped_url_path, <<Sep>>) # None
        THEN strip_prefix(stripped_url_path, <<Sep>>)[1]
        ELSE url_path
  IN join(out_dir, relative_url_path)

\* get_url_out_path applied on its own to eval.arg
GetUrlOutPath ==
  /\ pc = "path" /\ eval.out = None
  /\ eval' = [eval EXCEPT !.out = Some(get_url_out_path(eval.arg[1], eval.arg[2],
                                                        eval.arg[3]))]
  /\ UNCHANGED <<fvars, dvars, bvars>>

(* ------------------------ WafuriAPIClient ------------------------------ *)
Req(path, device) == [path |-> path, device |-> device]

\* WafuriAPIClientBuilder::build for the builder Fetcher::new sets up
build(uuid, device_type) ==
  [uuid |-> uuid, device_type |-> device_type, login_token |-> None,
   short_uuid |-> None, viewer_id |-> None]

\* WafuriAPIClientBuilder::build for any builder: b holds what was supplied
\* (None where nothing was), fresh is the uuid generated when none was
BuildFrom(b, fresh) ==
  [uuid |-> IF b.uuid # None THEN b.uuid[1] ELSE fresh,
   device_type |-> IF b.device_type # None THEN b.device_type[1] ELSE "Android",
   login_token |-> b.login_token,
   short_uuid |-> b.short_uuid,
   viewer_id |-> b.viewer_id]

\* faulty variant of signup: a client that holds a token signs up again
signup_again(c, answer) ==
  IF answer = "ok"
  THEN [client |-> [c EXCEPT !.login_token = Some("token"),
                             !.short_uuid = Some(1),
                             !.viewer_id = Some(1)],
        sent |-> <<Req("tool/signup", "")>>, ok |-> TRUE, ret |-> "some"]
  ELSE [client |-> c, sent |-> <<Req("tool/signup", "")>>, ok |-> FALSE,
        ret |-> "err"]

\* WafuriAPIClient::signup: [client, sent, ok, ret] for the service's answer;
\* an answer that is refused, does not decode, or carries a token that is no
\* header value leaves the client as it was
signup(c, answer) ==
  IF c.login_token # None
  THEN [client |-> c, sent |-> <<>>, ok |-> TRUE, ret |-> "none"]
  ELSE IF answer = "ok"
       THEN [client |-> [c EXCEPT !.login_token = Some("token"),
                                  !.short_uuid = Some(1),
                                  !.viewer_id = Some(1)],
             sent |-> <<Req("tool/signup", "")>>, ok |-> TRUE, ret |-> "some"]
       ELSE [client |-> c, sent |-> <<Req("tool/signup", "")>>, ok |-> FALSE,
             ret |-> "err"]

\* faulty variant of LoadRequests: the request is built without a viewer id
LoadRequestsUnguarded(c) == <<Req("load", "")>>

\* the request WafuriAPIClient::load sends
LoadRequests(c) ==
  IF c.viewer_id = None THEN <<>> ELSE <<Req("load", "")>>

\* WafuriAPIClient::load: [sent, ret] for the service's answer
load(c, answer) ==
  LET sent == LoadRequests(c)
  IN [sent |-> sent,
      ret |-> IF sent = <<>> THEN "none"
              ELSE IF answer = "ok" THEN "some" ELSE "err"]

\* DeviceType::to_string, the value of the device header
DeviceTypeToString(device_type) ==
  CASE device_type = "Ios" -> "1"
    [] device_type = "Android" -> "2"
    [] device_type = "All" -> "3"

\* the device header of a request, if it has one
DeviceHeader(req) ==
  IF req.device = "" THEN None ELSE Some(DeviceTypeToString(req.device))

\* faulty variant of Platforms: the configured device type is passed on
PlatformsAsConfigured(device_type) == <<device_type>>

\* the platforms get_asset_path and get_asset_version_info call for
Platforms(device_type) ==
  IF device_type = "All" THEN <<"Android", "Ios">> ELSE <<device_type>>

\* the requests get_asset_path sends: one per platform, none without a
\* viewer id
PathRequests(c) ==
  IF c.viewer_id = None THEN <<>>
  ELSE LET ps == Platforms(c.device_type)
       IN [i \in 1..Len(ps) |-> Req("asset/get_path", ps[i])]

\* the requests get_asset_version_info sends
VersionInfoRequests(c) ==
  IF c.viewer_id = None THEN <<>>
  ELSE LET ps == Platforms(c.device_type)
       IN [i \in 1..Len(ps) |-> Req("asset/version_info", ps[i])]

\* requests get_asset_path and get_asset_version_info send when first polled
ResolveRequests(c) == PathRequests(c) \o VersionInfoRequests(c)

\* what a call made of the requests `sent` returns when the service answers
\* them with `answers`: `unavailable` when nothing was sent, an error when an
\* answer is one
CallReturn(sent, answers, unavailable) ==
  IF sent = <<>> THEN unavailable
  ELSE IF \E i \in 1..Len(sent) : answers[i] # "ok" THEN "err"
  ELSE "some"

\* get_asset_path: the manifests a successful call can return
MergedManifests ==
  { m \in UNION { extend(android, ios) :
                    android \in ServedManifests, ios \in ServedManifests } :
      TotalArchives(m) <= MaxArchives }

get_asset_path(c) ==
  IF c.device_type = "All" THEN MergedManifests ELSE ServedManifests

\* get_asset_version_info: the list a successful call returns
get_asset_version_info(c) ==
  LET ps == Platforms(c.device_type)
  IN [i \in 1..Len(ps) |-> ServedVersionInfo(ps[i])]

\* a WafuriAPIClient used on its own: everything else stays as it is
ClientCall(f, c, sent, ret) ==
  /\ pc = "client"
  /\ client' = c /\ reqs' = sent /\ result' = ret
  /\ eval' = [f |-> f, arg |-> <<>>, out |-> <<>>]
  /\ UNCHANGED <<file, pc, op, cache, reqVersion, calls, info, fetchState, obs,
                 wcont, start, hashesAtStart, work, dvars, bvars>>

ClSignup(answer) ==
  LET s == signup(client, answer)
  IN ClientCall("signup", s.client, s.sent, s.ret)

ClLoad(answer) ==
  LET l == load(client, answer)
  IN ClientCall("load", client, l.sent, l.ret)

ClGetAssetPath(answers) ==
  LET sent == PathRequests(client)
  IN ClientCall("get_asset_path", client, sent,
                CallReturn(sent, answers, "none"))

\* get_asset_version_info called on its own: the list it returns is kept in
\* eval.out
ClGetAssetVersionInfo(answers) ==
  LET sent == VersionInfoRequests(client)
      ret == CallReturn(sent, answers, "empty")
  IN /\ pc = "client"
     /\ reqs' = sent /\ result' = ret
     /\ eval' = [f |-> "get_asset_version_info", arg |-> <<>>,
                 out |-> IF ret = "some" THEN get_asset_version_info(client)
                         ELSE <<>>]
     /\ UNCHANGED <<file, pc, op, client, cache, reqVersion, calls, info,
                    fetchState, obs, wcont, start, hashesAtStart, work, dvars,
                    bvars>>

(* ------------------- get_request_checksum (crypto.rs) ------------------ *)
\* A string is the sequence of its bytes; the strings the model names
Utf8(s) ==
  CASE s = "" -> <<>>
    [] s = "U2" -> <<85, 50>>
    [] s = "EA5D7426-42A6-474B-26B7-624F5F9B3AF102B3" ->
         <<69, 65, 53, 68, 55, 52, 50, 54, 45, 52, 50, 65, 54, 45, 52, 55, 52,
           66, 45, 50, 54, 66, 55, 45, 54, 50, 52, 70, 53, 70, 57, 66, 51, 65,
           70, 49, 48, 50, 66, 51>>
    [] s = "/api/index.php/" ->
         <<47, 97, 112, 105, 47, 105, 110, 100, 101, 120, 46, 112, 104, 112,
           47>>
    [] s = "tool/signup" ->
         <<116, 111, 111, 108, 47, 115, 105, 103, 110, 117, 112>>
    [] s = "load" -> <<108, 111, 97, 100>>
    [] s = "A=" -> <<65, 61>>
    [] s = "gA==" -> <<103, 65, 61, 61>>

\* u32::to_string: the decimal digits, as bytes
RECURSIVE to_string(_)
to_string(n) ==
  IF n < 10 THEN <<48 + n>> ELSE to_string(n \div 10) \o <<48 + (n % 10)>>

\* Sha1 works on 32-bit words; a word is <<high half, low half>>, each half
\* in 0..2^16-1, so that no sum leaves the integers TLC computes with
\* the bitwise and of two numbers of 4 bits, and of 16 bits
And4(x, y) ==
  ((x % 2) * (y % 2)) + (2 * (((x \div 2) % 2) * ((y \div 2) % 2)))
    + (4 * (((x \div 4) % 2) * ((y \div 4) % 2)))
    + (8 * ((x \div 8) * (y \div 8)))

And16(x, y) ==
  And4(x % 16, y % 16) + (16 * And4((x \div 16) % 16, (y \div 16) % 16))
    + (256 * And4((x \div 256) % 16, (y \div 256) % 16))
    + (4096 * And4(x \div 4096, y \div 4096))

WAnd(a, b) == <<And16(a[1], b[1]), And16(a[2], b[2])>>
WXor(a, b) == <<a[1] + b[1] - (2 * And16(a[1], b[1])),
                a[2] + b[2] - (2 * And16(a[2], b[2]))>>
WOr(a, b) == <<a[1] + b[1] - And16(a[1], b[1]),
               a[2] + b[2] - And16(a[2], b[2])>>
WNot(a) == <<(2^16) - 1 - a[1], (2^16) - 1 - a[2]>>

\* addition modulo 2^32
WAdd(a, b) ==
  LET lo == a[2] + b[2]
  IN <<(a[1] + b[1] + (lo \div (2^16))) % (2^16), lo % (2^16)>>

\* rotation to the left by n bits, n in 0..31
Rotl(a, n) ==
  LET w == IF n >= 16 THEN <<a[2], a[1]>> ELSE a
      k == n % 16
  IN <<((w[1] * (2^k)) % (2^16)) + (w[2] \div (2^(16 - k))),
       ((w[2] * (2^k)) % (2^16)) + (w[1] \div (2^(16 - k)))>>

\* the round function and round constant of round t, t in 0..79
RoundF(t, b, c, d) ==
  IF t < 20 THEN WOr(WAnd(b, c), WAnd(WNot(b), d))
  ELSE IF t < 40 THEN WXor(WXor(b, c), d)
  ELSE IF t < 60 THEN WOr(WOr(WAnd(b, c), WAnd(b, d)), WAnd(c, d))
  ELSE WXor(WXor(b, c), d)

RoundK(t) ==
  IF t < 20 THEN <<23170, 31129>>
  ELSE IF t < 40 THEN <<28377, 60321>>
  ELSE IF t < 60 THEN <<36635, 48348>>
  ELSE <<51810, 49622>>

\* the message schedule: the 16 words of a block extended to n words, the
\* first half of the extension being computed before the second
RECURSIVE Schedule(_, _)
Schedule(w, n) ==
  IF Len(w) >= n THEN w
  ELSE IF Len(w) + 1 = n
  THEN Append(w, Rotl(WXor(WXor(w[n - 3], w[n - 8]),
                           WXor(w[n - 14], w[n - 16])), 1))
  ELSE CHOOSE r \in {Schedule(v, n) :
                       v \in {Schedule(w, Len(w) + ((n - Len(w)) \div 2))}} :
         TRUE

\* round t on the working words s = <<a, b, c, d, e>>
Round(t, s, wt) ==
  CHOOSE r \in
    {<<WAdd(WAdd(a5, f), ek), s[1], Rotl(s[2], 30), s[3], s[4]>> :
       a5 \in {Rotl(s[1], 5)}, f \in {RoundF(t, s[2], s[3], s[4])},
       ek \in {WAdd(WAdd(s[5], RoundK(t)), wt)}} : TRUE

\* rounds from..to-1 in turn, the first half before the second
RECURSIVE Rounds(_, _, _, _)
Rounds(from, to, s, w) ==
  IF from + 1 = to THEN Round(from, s, w[from + 1])
  ELSE LET mid == from + ((to - from) \div 2)
       IN CHOOSE r \in {Rounds(mid, to, v, w) : v \in {Rounds(from, mid, s, w)}} :
            TRUE

\* one 64-byte block folded into the hash value h
Compress(h, block) ==
  LET w == Schedule([i \in 1..16 |->
                       <<(block[(4 * i) - 3] * 256) + block[(4 * i) - 2],
                         (block[(4 * i) - 1] * 256) + block[4 * i]>>], 80)
      s == Rounds(0, 80, h, w)
  IN [i \in 1..5 |-> WAdd(h[i], s[i])]

RECURSIVE Blocks(_, _)
Blocks(h, bytes) ==
  IF bytes = <<>> THEN h
  ELSE CHOOSE r \in {Blocks(v, SubSeq(bytes, 65, Len(bytes))) :
                        v \in {Compress(h, SubSeq(bytes, 1, 64))}} : TRUE

\* the message followed by the byte 128, zero bytes up to 8 short of a
\* multiple of 64, and the length in bits as 8 bytes, high byte first
Padded(bytes) ==
  LET zeros == (64 + 55 - (Len(bytes) % 64)) % 64
      bits == 8 * Len(bytes)
  IN bytes \o <<128>> \o [i \in 1..zeros + 4 |-> 0] \o
     [i \in 1..4 |-> (bits \div (256^(4 - i))) % 256]

\* Sha1::new() ... finalize(): the 20 bytes of the digest
Sha1(bytes) ==
  LET h == Blocks(<<<<26437, 8961>>, <<61389, 43913>>, <<39098, 56574>>,
                    <<4146, 21622>>, <<50130, 57840>>>>, Padded(bytes))
  IN [i \in 1..20 |->
        LET half == h[(i + 3) \div 4][(((i - 1) % 4) \div 2) + 1]
        IN IF i % 2 = 1 THEN half \div 256 ELSE half % 256]

\* hex::encode: two lower-case digits a byte
HexDigits ==
  <<"0", "1", "2", "3", "4", "5", "6", "7", "8", "9", "a", "b", "c", "d", "e",
    "f">>

hex_encode(bytes) ==
  [i \in 1..2 * Len(bytes) |->
     LET b == bytes[(i + 1) \div 2]
     IN HexDigits[(IF i % 2 = 1 THEN b \div 16 ELSE b % 16) + 1]]

\* get_request_checksum(uuid, viewer_id, api_path, body), every argument a
\* byte string
get_request_checksum(uuid, viewer_id, api_path, body) ==
  hex_encode(Sha1(uuid \o viewer_id \o api_path \o body))

\* Url::path of api_host.join(endpoint)
UrlPath(endpoint) == Utf8("/api/index.php/") \o Utf8(endpoint)

\* the viewer id as build_post renders it: decimal digits, or nothing
ViewerString(viewer_id) ==
  IF viewer_id = None THEN <<>> ELSE to_string(viewer_id[1])

\* get_request_checksum for every uuid, viewer id, endpoint and body a client
\* of the model signs with, computed once
TestUuid == "EA5D7426-42A6-474B-26B7-624F5F9B3AF102B3"
Endpoints == {"tool/signup", "load"}
Bodies == {"A=", "gA=="}

ChecksumTable ==
  {<<k, get_request_checksum(Utf8(k[1]), ViewerString(k[2]), UrlPath(k[3]),
                             Utf8(k[4]))>> :
     k \in {"U2", TestUuid} \X {None, Some(1), Some(2)} \X Endpoints
           \X Bodies}

Checksum(uuid, viewer_id, endpoint, body) ==
  (CHOOSE e \in ChecksumTable : e[1] = <<uuid, viewer_id, endpoint, body>>)[2]

\* faulty variant of build_post: the short uuid is signed for the viewer id
build_post_short_uuid(c, endpoint, body) ==
  [by |-> c, path |-> endpoint, body |-> body,
   param |-> Checksum(c.uuid, c.short_uuid, endpoint, body)]

\* WafuriAPIClient::build_post(url, body): the request with its param header,
\* and the client that built it
build_post(c, endpoint, body) ==
  [by |-> c, path |-> endpoint, body |-> body,
   param |-> Checksum(c.uuid, c.viewer_id, endpoint, body)]

\* build_post called on a client used on its own; eval.out keeps the last two
\* requests built
BuildPost(endpoint, body) ==
  /\ pc = "sign"
  /\ eval' = [f |-> "build_post", arg |-> <<endpoint, body>>,
              out |-> (IF Len(eval.out) = 2 THEN Tail(eval.out) ELSE eval.out)
                        \o <<build_post(client, endpoint, body)>>]
  /\ UNCHANGED <<fvars, dvars, bvars>>

\* signup called on a client that signs requests
SignSignup(answer) ==
  /\ pc = "sign"
  /\ client' = signup(client, answer).client
  /\ client' # client
  /\ UNCHANGED <<file, pc, op, cache, reqVersion, calls, info, fetchState,
                 obs, reqs, result, wcont, start, hashesAtStart, work, dvars,
                 bvars, eval>>

(* ------------ encode_base64_msgpack / decode_base64_msgpack ------------ *)
\* The payload is crypto.rs's ExampleStruct: [name, level], name a string of
\* ASCII bytes and level a u8. A conversion that fails returns None.
KeyName == <<110, 97, 109, 101>>
KeyLevel == <<108, 101, 118, 101, 108>>

\* rmp: a string of fewer than 32 bytes is written as a fixstr
WriteStr(str) == <<160 + Len(str)>> \o str

\* rmp: an unsigned integer is written in the shortest form that holds it
WriteU8(n) == IF n < 128 THEN <<n>> ELSE <<204, n>>

\* rmp_serde::to_vec_named: a struct is a map from field names to values, in
\* the order of declaration
to_vec_named(x) ==
  <<128 + 2>> \o WriteStr(KeyName) \o WriteStr(x.name) \o WriteStr(KeyLevel)
    \o WriteU8(x.level)

\* what a read returns: the value and the bytes after it, or a failure
Read(val, rest) == [ok |-> TRUE, val |-> val, rest |-> rest]
NoRead == [ok |-> FALSE, val |-> <<>>, rest |-> <<>>]

\* rmp_serde reads a string from a fixstr or a str8
ReadStr(b) ==
  IF b = <<>> THEN NoRead
  ELSE IF b[1] >= 160 /\ b[1] < 192
  THEN IF Len(b) >= 1 + (b[1] - 160)
       THEN Read(SubSeq(b, 2, 1 + (b[1] - 160)),
                 SubSeq(b, 2 + (b[1] - 160), Len(b)))
       ELSE NoRead
  ELSE IF b[1] = 217 /\ Len(b) >= 2
  THEN IF Len(b) >= 2 + b[2]
       THEN Read(SubSeq(b, 3, 2 + b[2]), SubSeq(b, 3 + b[2], Len(b)))
       ELSE NoRead
  ELSE NoRead

\* rmp_serde reads a u8 from a positive fixint, a uint8 or a uint16 whose
\* value a u8 holds
ReadU8(b) ==
  IF b = <<>> THEN NoRead
  ELSE IF b[1] < 128 THEN Read(b[1], Tail(b))
  ELSE IF b[1] = 204 /\ Len(b) >= 2 THEN Read(b[2], SubSeq(b, 3, Len(b)))
  ELSE IF b[1] = 205 /\ Len(b) >= 3
  THEN IF b[2] = 0 THEN Read(b[3], SubSeq(b, 4, Len(b))) ELSE NoRead
  ELSE NoRead

\* serde's IgnoredAny over nil, an integer or a string
ReadIgnored(b) ==
  IF b = <<>> THEN NoRead
  ELSE IF b[1] = 192 THEN Read(<<>>, Tail(b))
  ELSE IF ReadU8(b).ok THEN ReadU8(b)
  ELSE ReadStr(b)

\* the derived visit_map: n entries in any order, a field twice is an error,
\* a key that names no field is skipped with its value
RECURSIVE ReadFields(_, _, _)
ReadFields(b, n, acc) ==
  IF n = 0 THEN Read(acc, b)
  ELSE LET key == ReadStr(b)
       IN IF ~key.ok THEN NoRead
          ELSE IF key.val = KeyName
          THEN LET v == ReadStr(key.rest)
               IN IF ~v.ok \/ acc.name # None THEN NoRead
                  ELSE ReadFields(v.rest, n - 1,
                                  [acc EXCEPT !.name = Some(v.val)])
          ELSE IF key.val = KeyLevel
          THEN LET v == ReadU8(key.rest)
               IN IF ~v.ok \/ acc.level # None THEN NoRead
                  ELSE ReadFields(v.rest, n - 1,
                                  [acc EXCEPT !.level = Some(v.val)])
          ELSE LET v == ReadIgnored(key.rest)
               IN IF ~v.ok THEN NoRead ELSE ReadFields(v.rest, n - 1, acc)

\* rmp_serde::from_slice::<ExampleStruct>: the struct is read from a fixmap
\* of named fields or from a fixarray of the two fields in order
from_slice(b) ==
  IF b = <<>> THEN None
  ELSE IF b[1] >= 128 /\ b[1] < 144
  THEN LET r == ReadFields(Tail(b), b[1] - 128, [name |-> None, level |-> None])
       IN IF r.ok /\ r.val.name # None /\ r.val.level # None
          THEN Some([name |-> r.val.name[1], level |-> r.val.level[1]])
          ELSE None
  ELSE IF b[1] = 144 + 2
  THEN LET n == ReadStr(Tail(b))
           l == ReadU8(n.rest)
       IN IF n.ok /\ l.ok THEN Some([name |-> n.val, level |-> l.val])
          ELSE None
  ELSE None

\* the alphabet of BASE64_STANDARD; the padding character is "="
Alphabet ==
  <<"A", "B", "C", "D", "E", "F", "G", "H", "I", "J", "K", "L", "M", "N", "O",
    "P", "Q", "R", "S", "T", "U", "V", "W", "X", "Y", "Z", "a", "b", "c", "d",
    "e", "f", "g", "h", "i", "j", "k", "l", "m", "n", "o", "p", "q", "r", "s",
    "t", "u", "v", "w", "x", "y", "z", "0", "1", "2", "3", "4", "5", "6", "7",
    "8", "9", "+", "/">>

\* BASE64_STANDARD.encode: three bytes make four characters, the last group
\* is padded
Base64Encode(bytes) ==
  LET n == Len(bytes)
      At(i) == IF i <= n THEN bytes[i] ELSE 0
  IN [j \in 1..4 * ((n + 2) \div 3) |->
        LET g == 3 * ((j - 1) \div 4)
            k == (j - 1) % 4
        IN IF (k = 2 /\ g + 2 > n) \/ (k = 3 /\ g + 3 > n) THEN "="
           ELSE Alphabet[1 + (CASE k = 0 -> At(g + 1) \div 4
                                [] k = 1 -> ((At(g + 1) % 4) * 16)
                                              + (At(g + 2) \div 16)
                                [] k = 2 -> ((At(g + 2) % 16) * 4)
                                              + (At(g + 3) \div 64)
                                [] k = 3 -> At(g + 3) % 64)]]

\* the value of a character of the alphabet
Sextet(ch) == (CHOOSE i \in 1..64 : Alphabet[i] = ch) - 1

\* BASE64_STANDARD.decode: the length is a multiple of four, padding stands
\* only at the end and is canonical, the bits that are dropped are zero
Base64Decode(str) ==
  LET len == Len(str)
      pad == IF len >= 2 /\ str[len] = "=" /\ str[len - 1] = "=" THEN 2
             ELSE IF len >= 1 /\ str[len] = "=" THEN 1 ELSE 0
      Val(i) == IF i > len - pad THEN 0 ELSE Sextet(str[i])
      n == (3 * (len \div 4)) - pad
  IN IF len % 4 # 0 THEN None
     ELSE IF \E i \in 1..len - pad : \A c \in 1..64 : Alphabet[c] # str[i]
     THEN None
     ELSE IF (pad = 1 /\ Val(len - 1) % 4 # 0)
               \/ (pad = 2 /\ Val(len - 2) % 16 # 0)
     THEN None
     ELSE Some([i \in 1..n |->
                  LET g == 4 * ((i - 1) \div 3)
                      k == (i - 1) % 3
                  IN CASE k = 0 -> (Val(g + 1) * 4) + (Val(g + 2) \div 16)
                       [] k = 1 -> ((Val(g + 2) % 16) * 16)
                                     + (Val(g + 3) \div 4)
                       [] k = 2 -> ((Val(g + 3) % 4) * 64) + Val(g + 4)])

\* encode_base64_msgpack(to_encode)
encode_base64_msgpack(to_encode) == Base64Encode(to_vec_named(to_encode))

\* decode_base64_msgpack(to_decode): Some(payload), or None for an error
decode_base64_msgpack(to_decode) ==
  LET base64_decoded_bytes == Base64Decode(to_decode)
  IN IF base64_decoded_bytes = None THEN None
     ELSE from_slice(base64_decoded_bytes[1])

\* a payload encoded and decoded again
EncodeDecode ==
  /\ pc = "envelope" /\ eval.f = "payload" /\ eval.out = None
  /\ eval' = [eval EXCEPT
                !.out = Some(decode_base64_msgpack(
                               encode_base64_msgpack(eval.arg)))]
  /\ UNCHANGED <<fvars, dvars, bvars>>

\* an envelope decoded and, when that gave a payload, encoded again
DecodeEncode ==
  /\ pc = "envelope" /\ eval.f = "envelope" /\ eval.out = None
  /\ LET decoded == decode_base64_msgpack(eval.arg)
     IN eval' = [eval EXCEPT
                   !.out = Some(IF decoded = None THEN None
                                ELSE Some(encode_base64_msgpack(decoded[1])))]
  /\ UNCHANGED <<fvars, dvars, bvars>>

(* ----------------------------- Fetcher --------------------------------- *)
\* FetchCache::from_path followed by .ok()
from_path(f) == IF f.st = "valid" THEN f.rec ELSE None

ResetOperation ==
  /\ info' = NoInfo /\ work' = NoWork /\ wcont' = "none" /\ reqVersion' = ""
  /\ calls' = {}
  /\ dlpc' = "none" /\ cfg' = NoCfg /\ units' = <<>> /\ results' = <<>>
  /\ dlState' = DState("NotStarted", 0) /\ dlLog' = <<>>
  /\ dlChanged' = FALSE /\ bridgeDone' = FALSE

\* the states sent on the Fetcher's channel since the operation in progress
\* was called, each by its family, its name and, for a bridged state, the
\* name of the Downloader's state; kept in eval.out when eval.f = "published"
Sent(s) == <<s.op, s.st, IF s.st = "Download" THEN s.arg.st ELSE "">>

Published(e, s) ==
  IF e.f # "published" THEN e
  ELSE [e EXCEPT !.out = IF pc = "idle" THEN <<Sent(s)>>
                         ELSE Append(@, Sent(s))]

\* faulty variant of FPublish: the sender waits until the receiver has seen
\* the value before
FPublishWhenSeen(s) ==
  /\ obs.rx # "unseen"
  /\ fetchState' = s
  /\ obs' = IF obs.rx = "seen" THEN [obs EXCEPT !.rx = "unseen"] ELSE obs
  /\ eval' = Published(eval, s)

\* faulty variant of FPublish: a terminal state is not sent
FPublishNoFinish(s) ==
  IF s.st = "Finish"
  THEN UNCHANGED <<fetchState, obs, eval>>
  ELSE /\ fetchState' = s
       /\ obs' = IF obs.rx = "seen" THEN [obs EXCEPT !.rx = "unseen"]
                 ELSE IF obs.rx = "unseen" THEN [obs EXCEPT !.missed = TRUE]
                 ELSE obs
       /\ eval' = Published(eval, s)

\* faulty variant of FPublish: the receiver is not told of the new value
FPublishUnnoticed(s) ==
  /\ fetchState' = s
  /\ UNCHANGED obs
  /\ eval' = Published(eval, s)

\* send_replace on the Fetcher's channel: the value is replaced whether or
\* not the receiver has seen the one before
FPublish(s) ==
  /\ fetchState' = s
  /\ obs' = IF obs.rx = "seen" THEN [obs EXCEPT !.rx = "unseen"]
            ELSE IF obs.rx = "unseen" THEN [obs EXCEPT !.missed = TRUE]
            ELSE obs
  /\ eval' = Published(eval, s)

\* the Fetcher and everything it owns is dropped: the process ends
DropFetcher ==
  /\ pc' = "none" /\ op' = NoOp
  /\ client' = NoClient /\ cache' = FetchCacheNew("", "Android")
  /\ fetchState' = FState("None", "None", 0) /\ obs' = NoObs
  /\ reqs' = <<>> /\ start' = NoStart /\ hashesAtStart' = {}
  /\ ResetOperation

\* the operation returns Err: the caller propagates the error and the process
\* ends (fetch_assets, main)
Fail ==
  /\ result' = "err"
  /\ DropFetcher

\* faulty variant of SessionUuid: the builder is not given the cache's udid
SessionUuidFresh(loaded, fresh) == fresh

\* the uuid of the client Fetcher::new builds: the loaded cache's udid, or the
\* one the builder generates
SessionUuid(loaded, fresh) ==
  IF loaded # None THEN loaded[1].udid ELSE fresh

\* faulty variant of CacheOrNew: the cache of a Fetcher that loaded none keeps
\* no udid
CacheOrBlank(loaded, uuid, device_type) ==
  IF loaded # None THEN loaded[1] ELSE FetchCacheNew("", device_type)

\* cache.unwrap_or(FetchCache::new(client.uuid.clone(), client.device_type))
CacheOrNew(loaded, uuid, device_type) ==
  IF loaded # None THEN loaded[1] ELSE FetchCacheNew(uuid, device_type)

\* Fetcher::new
New(device_type, fresh, answer) ==
  /\ pc = "none"
  /\ LET loaded == from_path(file)
         uuid == SessionUuid(loaded, fresh)
         s == signup(build(uuid, device_type), answer)
     IN /\ reqs' = s.sent
        /\ IF s.ok
           THEN /\ client' = s.client
                /\ cache' = CacheOrNew(loaded, uuid, device_type)
                /\ pc' = "idle"
                /\ result' = "none"
           ELSE /\ result' = "err"
                /\ UNCHANGED <<client, cache, pc>>
  /\ fetchState' = FState("None", "None", 0) /\ obs' = NoObs
  /\ UNCHANGED <<file, op, reqVersion, calls, info, wcont, start, hashesAtStart,
                 work, dvars, bvars>>
  /\ UNCHANGED eval

\* validate_dir
validate_dir(kind) == kind # "file"

\* the state an operation sends as it is called
EntryState(name) ==
  CASE name = "info" -> FState("AssetInfo", "GetAssetVersion", 0)
    [] name = "assets" -> FState("DownloadAssets", "FetchAssetInfo", 0)
    [] name = "files" -> FState("DownloadFilesList", "FetchAssetInfo", 0)

\* entry of get_latest_asset_info, download_assets, download_files_list up to
\* their first send: download_assets and download_files_list go on to call
\* get_latest_asset_info, which stands at its first await (client.load)
StartOp(name, dir, concurrency) ==
  /\ pc = "idle"
  /\ IF (name # "info" /\ ~validate_dir(dir)) \/ client.viewer_id = None
     THEN Fail /\ UNCHANGED eval
     ELSE /\ op' = [name |-> name, concurrency |-> concurrency]
          /\ start' = StartOf(file, cache)
          /\ hashesAtStart' = cache.downloaded_asset_hashes
          /\ FPublish(EntryState(name))
          /\ result' = "none"
          /\ IF name = "info"
             THEN pc' = "load" /\ reqs' = LoadRequests(client)
             ELSE pc' = "latest" /\ reqs' = <<>>
          /\ ResetOperation
          /\ UNCHANGED <<client, cache>>
  /\ UNCHANGED file

\* get_latest_asset_info called by download_assets or download_files_list, up
\* to its first await (client.load)
GetLatestAssetInfo ==
  /\ pc = "latest"
  /\ FPublish(FState("AssetInfo", "GetAssetVersion", 0))
  /\ pc' = "load"
  /\ reqs' = LoadRequests(client)
  /\ UNCHANGED <<file, op, client, cache, reqVersion, calls, info, result,
                 wcont, start, hashesAtStart, work, dvars, bvars>>

\* faulty variant of CacheValid: the device type is not compared
CacheValidAnyDevice(c, cl, asset_version) ==
  /\ c.asset_paths # None
  /\ c.asset_paths[1].info.client_asset_version = asset_version

\* faulty variant of CacheValid: the device types are compared the wrong way
CacheValidOtherDevice(c, cl, asset_version) ==
  /\ c.asset_paths # None
  /\ c.asset_paths[1].info.client_asset_version = asset_version
  /\ c.device_type # cl.device_type

\* the test at the head of get_asset_info
CacheValid(c, cl, asset_version) ==
  /\ c.asset_paths # None
  /\ c.asset_paths[1].info.client_asset_version = asset_version
  /\ c.device_type = cl.device_type

\* client.load() fails
LoadFail ==
  /\ pc = "load"
  /\ Fail
  /\ UNCHANGED file
  /\ UNCHANGED eval

\* client.load() answers; get_asset_info up to its first await
LoadDone(asset_version) ==
  /\ pc = "load"
  /\ IF CacheValid(cache, client, asset_version)
     THEN /\ FPublish(FState("AssetInfo", "Finish", 0))
          /\ info' = [src |-> "cache", version_info |-> cache.version_info,
                      asset_paths |-> cache.asset_paths]
          /\ pc' = "resolved"
          /\ UNCHANGED <<reqs, reqVersion, calls>>
     ELSE /\ FPublish(FState("AssetInfo", "GetAssetInfo", 0))
          /\ reqs' = reqs \o ResolveRequests(client)
          /\ reqVersion' = asset_version /\ calls' = {}
          /\ pc' = "resolve"
          /\ UNCHANGED info
  /\ UNCHANGED <<file, op, client, cache, result, wcont, start,
                 hashesAtStart, work, dvars, bvars>>

\* faulty variant of Stamp: the manifest is kept as it was resolved
StampSkipped(m) == m

\* the stamp get_asset_info puts on a resolved manifest
Stamp(m) ==
  [m EXCEPT !.info.client_asset_version = m.info.target_asset_version]

\* the calls try_join! is still waiting for
Waiting(cl, answered) == (1..Len(ResolveRequests(cl))) \ answered

\* one call of try_join!(asset_paths_future, asset_version_info_future)
\* answers with success
CallDone(i) ==
  /\ pc = "resolve"
  /\ i \in Waiting(client, calls)
  /\ calls' = calls \cup {i}
  /\ UNCHANGED <<file, pc, op, client, cache, reqVersion, info, result, reqs,
                 fetchState, obs, wcont, start, hashesAtStart, work, dvars,
                 bvars, eval>>

\* faulty variant of AllAnswered: the first answer completes the join
AnyAnswered(cl, answered) == answered # {}

\* try_join! completes with success once every call has
AllAnswered(cl, answered) == Waiting(cl, answered) = {}

\* one of the calls try_join! waits for fails: try_join! returns the error at
\* once and `?` propagates it
ResolveFail ==
  /\ pc = "resolve"
  /\ Waiting(client, calls) # {}
  /\ Fail
  /\ UNCHANGED file
  /\ UNCHANGED eval

\* the operation returns Ok: its locals, the Downloader and what the
\* operation found when it started are gone; the Fetcher stays
Return ==
  /\ pc' = "idle" /\ result' = "ok" /\ op' = NoOp
  /\ reqs' = <<>> /\ start' = NoStart /\ hashesAtStart' = {}
  /\ ResetOperation

(* -------------------- FetchCache::write / write_file ------------------- *)
\* write_cache as far as write_file's open (create_dir_all, then
\* File::options().write(true).create(true).truncate(true).open(path)):
\* success leaves the file empty, an error leaves it as it was
WriteOpen(cont) ==
  /\ file' = FileTruncated
  /\ pc' = "write_data" /\ wcont' = cont
  /\ start' = IF start.written THEN start
              ELSE [start EXCEPT !.written = TRUE,
                                 !.same = file.st = "valid" /\
                                          ButHashes(file.rec[1]) = ButHashes(cache')]

\* try_join! succeeds; get_asset_info up to write_file's write_all
ResolveDone(m, opened) ==
  /\ pc = "resolve"
  /\ AllAnswered(client, calls)
  /\ IF opened
     THEN /\ LET asset_paths == Stamp(m)
                 version_info == get_asset_version_info(client)
             IN /\ cache' = [cache EXCEPT !.asset_paths = Some(asset_paths),
                                          !.version_info = version_info,
                                          !.device_type = client.device_type]
                /\ info' = [src |-> "fresh", version_info |-> version_info,
                            asset_paths |-> Some(asset_paths)]
          /\ WriteOpen("info")
          /\ calls' = {}
          /\ UNCHANGED <<op, client, result, reqs, reqVersion, fetchState, obs,
                         hashesAtStart, work, dvars, bvars>>
     ELSE /\ Fail
          /\ UNCHANGED file
  /\ UNCHANGED eval

\* write_file: out_file.write_all(data) ends, then what follows write_cache
WriteData(ok) ==
  /\ pc = "write_data"
  /\ IF ok
     THEN /\ file' = FileOf(cache)
          /\ IF wcont = "info"
             THEN /\ FPublish(FState("AssetInfo", "Finish", 0))
                  /\ pc' = "resolved"
                  /\ reqVersion' = ""
                  /\ UNCHANGED <<op, result, calls, info, reqs, wcont,
                                 start, hashesAtStart, work, dvars, bvars>>
             ELSE /\ FPublish(FState("DownloadAssets", "Finish", 0))
                  /\ Return
          /\ UNCHANGED <<client, cache>>
     ELSE /\ Fail
          /\ UNCHANGED <<file, eval>>

(* --------------------------- download_assets --------------------------- *)
MapInsert(map, url, hash) ==
  {e \in map : e.url # url} \cup {[url |-> url, hash |-> hash]}

\* faulty variant of insert_url_if_not_downloaded: the hash set is not consulted
insert_url_always(archive, downloaded_asset_hashes, acc) ==
  IF ~UrlParses(archive.location)
  THEN [acc EXCEPT !.err = TRUE]
  ELSE [acc EXCEPT !.map = MapInsert(@, archive.location, archive.sha256),
                   !.urls = Append(@, archive.location),
                   !.total = @ + archive.size]

\* faulty variant of insert_url_if_not_downloaded: the size of a skipped entry
\* is returned as well
insert_url_skipped_counted(archive, downloaded_asset_hashes, acc) ==
  LET hash == archive.sha256
  IN IF hash \notin downloaded_asset_hashes
     THEN IF ~UrlParses(archive.location)
          THEN [acc EXCEPT !.err = TRUE]
          ELSE [acc EXCEPT !.map = MapInsert(@, archive.location, hash),
                           !.urls = Append(@, archive.location),
                           !.total = @ + archive.size]
     ELSE [acc EXCEPT !.newHashes = @ \cup {hash},
                      !.total = @ + archive.size]

\* Fetcher::insert_url_if_not_downloaded, on the locals held in acc
insert_url_if_not_downloaded(archive, downloaded_asset_hashes, acc) ==
  LET hash == archive.sha256
  IN IF hash \notin downloaded_asset_hashes
     THEN IF ~UrlParses(archive.location)
          THEN [acc EXCEPT !.err = TRUE]
          ELSE [acc EXCEPT !.map = MapInsert(@, archive.location, hash),
                           !.urls = Append(@, archive.location),
                           !.total = @ + archive.size]
     ELSE [acc EXCEPT !.newHashes = @ \cup {hash}]

\* the two loops of download_assets; `?` leaves at the first error
RECURSIVE InsertAll(_, _, _)
InsertAll(archives, downloaded_asset_hashes, acc) ==
  IF acc.err \/ archives = <<>> THEN acc
  ELSE InsertAll(Tail(archives), downloaded_asset_hashes,
                 insert_url_if_not_downloaded(Head(archives),
                                              downloaded_asset_hashes, acc))

\* every archive entry of a manifest: the full list, then each diff's list
AllArchives(asset_paths) ==
  asset_paths.full.archive \o ConcatArchives(asset_paths.diff)

BuildWorklist(asset_paths, downloaded_asset_hashes) ==
  InsertAll(AllArchives(asset_paths), downloaded_asset_hashes, NoWork)

\* DownloadConfig::builder()...build() and Downloader::new
DownloaderNew(urls, concurrency) ==
  /\ cfg' = [urls |-> urls, concurrency |-> concurrency,
             retry_count |-> DEFAULT_RETRY_COUNT]
  /\ dlpc' = "start"
  /\ UNCHANGED <<units, results, dlState, dlLog, dlChanged, bridgeDone>>

\* get_latest_asset_info has returned to its caller
InfoReturned ==
  /\ pc = "resolved" /\ op.name = "info"
  /\ Return
  /\ UNCHANGED <<file, client, cache, fetchState, obs>>
  /\ UNCHANGED eval

\* download_assets from the return of get_latest_asset_info to join!
StartAssetsDownload ==
  /\ pc = "resolved" /\ op.name = "assets"
  /\ LET w == BuildWorklist(info.asset_paths[1], cache.downloaded_asset_hashes)
     IN IF w.err
        THEN Fail /\ UNCHANGED eval
        ELSE /\ work' = w
             /\ FPublish(FState("DownloadAssets", "DownloadStart", w.total))
             /\ DownloaderNew(w.urls, op.concurrency)
             /\ pc' = "download"
             /\ UNCHANGED <<op, client, cache, reqVersion, calls, info, result, reqs,
                            wcont, start, hashesAtStart>>
  /\ UNCHANGED file

\* the locations download_files_list takes from the version info list
FilesListUrls(version_info) ==
  [i \in 1..(IF Len(version_info) < 2 THEN Len(version_info) ELSE 2) |->
     version_info[i].files_list]

\* download_files_list from the return of get_latest_asset_info to join!
StartFilesDownload ==
  /\ pc = "resolved" /\ op.name = "files"
  /\ LET urls == FilesListUrls(info.version_info)
     IN IF \E i \in 1..Len(urls) : ~UrlParses(urls[i])
        THEN Fail /\ UNCHANGED eval
        ELSE /\ FPublish(FState("DownloadFilesList", "DownloadStart", Len(urls)))
             /\ DownloaderNew(urls, 2)
             /\ pc' = "download"
             /\ UNCHANGED <<op, client, cache, reqVersion, calls, info, result, reqs,
                            wcont, start, hashesAtStart, work>>
  /\ UNCHANGED file

\* the loop over downloaded_urls at the end of download_assets
RECURSIVE InsertDownloaded(_, _, _)
InsertDownloaded(downloaded_urls, map, hashes) ==
  IF downloaded_urls = <<>> THEN hashes
  ELSE LET hit == {e \in map : e.url = Head(downloaded_urls)}
       IN InsertDownloaded(Tail(downloaded_urls), map \ hit,
                           hashes \cup {e.hash : e \in hit})

\* the urls Downloader::download returns as downloaded
DownloadedUrls(rs) ==
  LET oks == SelectSeq(rs, LAMBDA r : r.ok)
  IN [i \in 1..Len(oks) |-> oks[i].url]

\* the errors Downloader::download returns
DownloadErrors(rs) == SelectSeq(rs, LAMBDA r : ~r.ok)

\* faulty variant of FinishAssetsDownload: the bridge is not awaited
FinishAssetsDownloadUnjoined(opened) ==
  /\ pc = "download" /\ op.name = "assets"
  /\ dlpc = "returned"
  /\ IF opened
     THEN /\ cache' = [cache EXCEPT !.downloaded_asset_hashes =
                         InsertDownloaded(DownloadedUrls(results), work.map,
                                          work.newHashes)]
          /\ WriteOpen("final")
          /\ UNCHANGED <<op, client, reqVersion, calls, info, result, reqs,
                         fetchState, obs, hashesAtStart, work, dvars, bvars>>
     ELSE /\ Fail
          /\ UNCHANGED file
  /\ UNCHANGED eval

\* download_assets after join!: the new hash set, write_cache up to write_all
FinishAssetsDownload(opened) ==
  /\ pc = "download" /\ op.name = "assets"
  /\ dlpc = "returned" /\ bridgeDone
  /\ IF opened
     THEN /\ cache' = [cache EXCEPT !.downloaded_asset_hashes =
                         InsertDownloaded(DownloadedUrls(results), work.map,
                                          work.newHashes)]
          /\ WriteOpen("final")
          /\ UNCHANGED <<op, client, reqVersion, calls, info, result, reqs,
                         fetchState, obs, hashesAtStart, work, dvars, bvars>>
     ELSE /\ Fail
          /\ UNCHANGED file
  /\ UNCHANGED eval

\* download_files_list after join!
FinishFilesDownload ==
  /\ pc = "download" /\ op.name = "files"
  /\ dlpc = "returned" /\ bridgeDone
  /\ FPublish(FState("DownloadFilesList", "Finish", 0))
  /\ Return
  /\ UNCHANGED <<file, client, cache>>

\* bridge_download_state: one turn of its loop
BridgeStep ==
  /\ pc = "download" /\ ~bridgeDone /\ dlChanged
  /\ dlChanged' = FALSE
  /\ FPublish(FState("DownloadAssets", "Download", dlState))
  /\ bridgeDone' = (dlState.st = "Finish")
  /\ UNCHANGED <<file, pc, op, client, cache, reqVersion, calls, info, result, reqs,
                 wcont, start, hashesAtStart, work, dvars>>

\* the process is stopped (killed, or it exits) wherever it is
Interrupt ==
  /\ pc \notin {"none", "standalone"}
  /\ result' = "none"
  /\ DropFetcher
  /\ UNCHANGED file
  /\ UNCHANGED eval

(* ------------------- the command line's watcher task ------------------- *)
\* the state on which the watcher of a command leaves its loop
Terminal(cmd) ==
  IF cmd = "info" THEN FState("AssetInfo", "Finish", 0)
  ELSE IF cmd = "assets" THEN FState("DownloadAssets", "Finish", 0)
  ELSE FState("DownloadFilesList", "Finish", 0)

\* tokio::spawn(watch_fetch_state(state_recv)) between Fetcher::new and the
\* operation: the receiver has seen the channel's initial value
Spawn(cmd) ==
  /\ pc = "idle" /\ result = "none" /\ obs = NoObs
  /\ obs' = [cmd |-> cmd, rx |-> "seen", missed |-> FALSE]
  /\ UNCHANGED <<file, pc, op, client, cache, reqVersion, calls, info, result,
                 reqs, fetchState, wcont, start, hashesAtStart, work, dvars,
                 bvars, eval>>

\* watch_fetch_state: recv.changed() resolves, borrow_and_update, the match;
\* obs.missed records that a value was replaced before the watcher read it
ObsStep ==
  /\ obs.rx = "unseen"
  /\ obs' = [obs EXCEPT !.rx = IF fetchState = Terminal(obs.cmd) THEN "done"
                                ELSE "seen"]
  /\ UNCHANGED <<file, pc, op, client, cache, reqVersion, calls, info, result,
                 reqs, fetchState, wcont, start, hashesAtStart, work, dvars,
                 bvars, eval>>

\* the command of the command line after its operation returned Ok: it awaits
\* the watcher, if it spawned one, and the process ends
Exit ==
  /\ pc = "idle" /\ result = "ok"
  /\ obs = NoObs \/ obs.rx = "done"
  /\ DropFetcher
  /\ UNCHANGED <<file, result, eval>>

(* ----------------------------- Downloader ------------------------------ *)
\* faulty variant of Publish: an error is published as progress
PublishProgressOnly(st, n) ==
  /\ dlState' = DState(IF st = "DownloadError" THEN "FileDownload" ELSE st, n)
  /\ dlLog' = Append(dlLog, DState(IF st = "DownloadError" THEN "FileDownload"
                                   ELSE st, n))
  /\ dlChanged' = TRUE

\* send_replace on the Downloader's channel
Publish(st, n) ==
  /\ dlState' = DState(st, n)
  /\ dlLog' = Append(dlLog, DState(st, n))
  /\ dlChanged' = TRUE

\* Downloader::download up to the stream: out paths, DownloadStart
DlBegin ==
  /\ dlpc = "start"
  /\ units' = [i \in 1..Len(cfg.urls) |->
                 [url |-> cfg.urls[i], st |-> "pending", met |-> <<>>]]
  /\ Publish("DownloadStart", Len(cfg.urls))
  /\ dlpc' = "run"
  /\ UNCHANGED <<fvars, cfg, results, bridgeDone>>
  /\ UNCHANGED eval

InFlight == {i \in 1..Len(units) : units[i].st = "inflight"}
Pending == {i \in 1..Len(units) : units[i].st = "pending"}

\* faulty variant of CanStart: one unit too many is taken
CanStartOneMore(inflight, concurrency) == inflight <= concurrency

\* buffer_unordered(concurrency) takes the next unit of the stream while
\* fewer than concurrency are in progress
CanStart(inflight, concurrency) == inflight < concurrency

UnitStart ==
  /\ dlpc = "run"
  /\ Pending # {}
  /\ CanStart(Cardinality(InFlight), cfg.concurrency)
  /\ LET i == CHOOSE j \in Pending : \A k \in Pending : j <= k
     IN units' = [units EXCEPT ![i].st = "inflight"]
  /\ UNCHANGED <<fvars, dlpc, cfg, results, dlState, dlLog, bvars>>
  /\ UNCHANGED eval

\* what one transfer can meet: success, a transport failure (send, the read
\* of the body and the write of the file fail alike), a non-2xx status
Outcomes == {"ok", "transport", "status"}

\* Downloader::download_file: Ok(url) or Err
download_file(outcome) == outcome = "ok"

\* faulty variant of RetryDue: the strategy yields one delay fewer
RetryDueOneFewer(attempts, retry_count) == attempts < retry_count

\* the retry strategy ExponentialBackoff.take(retry_count) still yields a
\* delay after `attempts` attempts
RetryDue(attempts, retry_count) == attempts <= retry_count

\* Retry::spawn(retry_strategy, DownloadAction).await, attempt k meeting
\* outcomes[k]: the result, and what each attempt made has met
RECURSIVE RetrySpawn(_, _, _)
RetrySpawn(outcomes, retry_count, k) ==
  IF download_file(outcomes[k])
  THEN [ok |-> TRUE, met |-> SubSeq(outcomes, 1, k)]
  ELSE IF RetryDue(k, retry_count)
       THEN RetrySpawn(outcomes, retry_count, k + 1)
       ELSE [ok |-> FALSE, met |-> SubSeq(outcomes, 1, k)]

\* what Retry::spawn can resolve to, over all that the attempts can meet
RetryResultsOf(retry_count) ==
  { RetrySpawn(outcomes, retry_count, 1) :
      outcomes \in [1..(retry_count + 1) -> Outcomes] }

RetryCounts == 0..(IF MaxRetry > DEFAULT_RETRY_COUNT THEN MaxRetry
                   ELSE DEFAULT_RETRY_COUNT)

RetryTable == [retry_count \in RetryCounts |-> RetryResultsOf(retry_count)]

RetryResults(retry_count) == RetryTable[retry_count]

\* met is a history field of a unit (nothing reads it); it is kept for a
\* Downloader run on its own
KeepAttempts == pc = "standalone"

UnitResults(retry_count) ==
  { [ok |-> r.ok, met |-> IF KeepAttempts THEN r.met ELSE <<>>] :
      r \in RetryResults(retry_count) }

\* the future of unit i resolves: Retry::spawn has returned and the per-unit
\* state is published
UnitDone(i, r) ==
  /\ dlpc = "run"
  /\ i \in InFlight
  /\ r \in UnitResults(cfg.retry_count)
  /\ units' = [units EXCEPT ![i].st = IF r.ok THEN "ok" ELSE "err",
                            ![i].met = r.met]
  /\ results' = Append(results, [url |-> units[i].url, ok |-> r.ok])
  /\ IF r.ok THEN Publish("FileDownload", 0)
             ELSE Publish("DownloadError", 0)
  /\ UNCHANGED <<fvars, dlpc, cfg, bridgeDone>>
  /\ UNCHANGED eval

\* faulty variant of StreamDone: units still in progress are not waited for
StreamDonePendingOnly(concurrency) ==
  /\ concurrency > 0
  /\ Pending = {}

\* buffer_unordered(concurrency).collect() is complete: the stream has been
\* drained, which never happens with a limit of 0
StreamDone(concurrency) ==
  /\ concurrency > 0
  /\ Pending = {} /\ InFlight = {}

\* Downloader::download after the stream: Finish, return
DlFinish ==
  /\ dlpc = "run"
  /\ StreamDone(cfg.concurrency)
  /\ Publish("Finish", 0)
  /\ dlpc' = "returned"
  /\ UNCHANGED <<fvars, cfg, units, results, bridgeDone>>
  /\ UNCHANGED eval

(* --------------- the retry strategy of Downloader::download ------------ *)
\* A u64 is the sequence of its five digits to the base 10^4, lowest first,
\* so that no product leaves the integers TLC computes with.
U64Max == <<1615, 5955, 737, 4407, 1844>>

U64(n) == <<n % 10000, (n \div 10000) % 10000, n \div (10000 * 10000), 0, 0>>

\* the digits of w * m with the carry out of the top digit as a sixth, for
\* m of at most MaxDelay or DEFAULT_RETRY_DELAY
RECURSIVE MulDigits(_, _, _)
MulDigits(w, m, carry) ==
  IF w = <<>> THEN <<carry>>
  ELSE <<((w[1] * m) + carry) % 10000>>
         \o MulDigits(Tail(w), m, ((w[1] * m) + carry) \div 10000)

\* w > v for two digit sequences of one length
RECURSIVE Greater(_, _)
Greater(w, v) ==
  IF w = <<>> THEN FALSE
  ELSE IF w[Len(w)] # v[Len(v)] THEN w[Len(w)] > v[Len(v)]
  ELSE Greater(SubSeq(w, 1, Len(w) - 1), SubSeq(v, 1, Len(v) - 1))

\* u64::checked_mul: None on overflow
checked_mul(w, m) ==
  LET p == MulDigits(w, m, 0)
  IN IF p[6] # 0 \/ Greater(SubSeq(p, 1, 5), U64Max) THEN None
     ELSE Some(SubSeq(p, 1, 5))

\* ExponentialBackoff::from_millis(base): factor 1, no max_delay
from_millis(base) == [current |-> U64(base), base |-> base, factor |-> 1]

\* ExponentialBackoff::next: the delay is current * factor, and current is
\* multiplied by base for the next call; both saturate at u64::MAX
BackoffDelay(strategy) ==
  LET duration == checked_mul(strategy.current, strategy.factor)
  IN IF duration = None THEN U64Max ELSE duration[1]

BackoffNext(strategy) ==
  LET next == checked_mul(strategy.current, strategy.base)
  IN [strategy EXCEPT !.current = IF next = None THEN U64Max ELSE next[1]]

\* Retry::spawn for a unit whose every attempt fails: after a failed attempt
\* the strategy, cut to retry_count delays by take, is asked for the next
\* delay and the task sleeps for it; eval.out holds the delays slept so far
RetrySleep ==
  /\ pc = "retry" /\ eval.f = "retry"
  /\ Len(eval.out) < eval.arg.retry_count
  /\ eval' = [eval EXCEPT
                !.arg.strategy = BackoffNext(eval.arg.strategy),
                !.out = Append(eval.out, BackoffDelay(eval.arg.strategy))]
  /\ UNCHANGED <<fvars, dvars, bvars>>

(* --------------------------- specifications ---------------------------- *)
Dirs == {"dir", "missing", "file"}

DlNext ==
  \/ DlBegin
  \/ UnitStart
  \/ (dlpc = "run" /\ \E i \in InFlight, r \in UnitResults(cfg.retry_count) :
                        UnitDone(i, r))
  \/ DlFinish

Next ==
  \/ \E d \in DeviceTypes, u \in Udids, a \in {"ok", "fail"} : New(d, u, a)
  \/ \E n \in {"info", "files"}, dir \in Dirs : StartOp(n, dir, 0)
  \/ \E dir \in Dirs, c \in 0..MaxConc : StartOp("assets", dir, c)
  \/ GetLatestAssetInfo
  \/ LoadFail
  \/ \E v \in Versions : LoadDone(v)
  \/ \E i \in 1..Len(ResolveRequests(client)) : CallDone(i)
  \/ ResolveFail
  \/ (pc = "resolve" /\ AllAnswered(client, calls) /\ \E m \in get_asset_path(client), opened \in BOOLEAN :
                          ResolveDone(m, opened))
  \/ \E ok \in BOOLEAN : WriteData(ok)
  \/ InfoReturned
  \/ StartAssetsDownload
  \/ StartFilesDownload
  \/ \E opened \in BOOLEAN : FinishAssetsDownload(opened)
  \/ FinishFilesDownload
  \/ BridgeStep
  \/ Interrupt
  \/ DlNext

Spec == Init /\ [][Next]_vars

\* a Downloader built and run on its own, for any DownloadConfig within bounds
UrlSeqs == UNION {[1..k -> ValidLocs] : k \in 0..MaxUrls}

DlInit ==
  /\ file = FileMissing
  /\ pc = "standalone" /\ op = NoOp
  /\ client = NoClient
  /\ cache = FetchCacheNew("", "Android")
  /\ reqVersion = "" /\ info = NoInfo /\ result = "none" /\ reqs = <<>>
  /\ fetchState = FState("None", "None", 0) /\ obs = NoObs
  /\ calls = {} /\ eval = NoEval
  /\ wcont = "none"
  /\ start = NoStart /\ hashesAtStart = {}
  /\ work = NoWork
  /\ dlpc = "start"
  /\ cfg \in [urls : UrlSeqs, concurrency : 0..MaxConc, retry_count : 0..MaxRetry]
  /\ units = <<>> /\ results = <<>>
  /\ dlState = DState("NotStarted", 0) /\ dlLog = <<>>
  /\ dlChanged = FALSE /\ bridgeDone = FALSE

DlSpec == DlInit /\ [][DlNext]_vars

\* AssetPaths::extend over manifests of up to MaxDiffs diff sets: a manifest
\* merged with itself, and any two manifests of at most one diff set
MaxDiffs == 2
ExtEntries ==
  { [location |-> "a", size |-> 1, sha256 |-> "h1"],
    [location |-> "b", size |-> 2, sha256 |-> "h2"],
    [location |-> "b", size |-> 1, sha256 |-> "h1"] }

ExtArchives(n) == UNION {[1..k -> ExtEntries] : k \in 0..n}

ExtDiff ==
  [version : {"v1", "v2"}, original_version : {"v0", "v9"},
   archive : ExtArchives(1)]

ExtManifests(n) ==
  { m \in [ info : [client_asset_version : {"v0"},
                    target_asset_version : {"v1", "v2"}],
            full : [version : {"v1"}, archive : ExtArchives(MaxArchives)],
            diff : UNION {[1..k -> ExtDiff] : k \in 0..n} ] :
      TotalArchives(m) <= MaxArchives }

ExtArgs ==
  { <<m, m>> : m \in ExtManifests(MaxDiffs) } \cup
  (ExtManifests(1) \X ExtManifests(1))

ExtInit ==
  /\ file = FileMissing
  /\ pc = "extend" /\ op = NoOp
  /\ client = NoClient
  /\ cache = FetchCacheNew("", "Android")
  /\ reqVersion = "" /\ info = NoInfo /\ result = "none" /\ reqs = <<>>
  /\ fetchState = FState("None", "None", 0) /\ obs = NoObs
  /\ calls = {}
  /\ eval \in [f : {"extend"}, arg : ExtArgs, out : {NoOut}]
  /\ wcont = "none"
  /\ start = NoStart /\ hashesAtStart = {}
  /\ work = NoWork
  /\ DlIdle

ExtNext == ExtendAB \/ ExtendBA

ExtSpec == ExtInit /\ [][ExtNext]_vars

\* a function applied on its own: everything but eval is as at the start,
\* and pc names the function
Apart(p) ==
  /\ file = FileMissing
  /\ pc = p /\ op = NoOp
  /\ client = NoClient
  /\ cache = FetchCacheNew("", "Android")
  /\ reqVersion = "" /\ info = NoInfo /\ result = "none" /\ reqs = <<>>
  /\ fetchState = FState("None", "None", 0) /\ obs = NoObs
  /\ calls = {}
  /\ wcont = "none"
  /\ start = NoStart /\ hashesAtStart = {}
  /\ work = NoWork
  /\ DlIdle

\* get_url_out_path for every url path of up to MaxPathLen characters after
\* its leading separator, every prefix of up to MaxPrefixLen characters or
\* none, and two output directories
MaxPathLen == 3
MaxPrefixLen == 2
Chars == {Sep, "p", "x"}
Strings(n) == UNION {[1..k -> Chars] : k \in 0..n}
UrlPaths == {<<Sep>> \o t : t \in Strings(MaxPathLen)}
OutDirs == {"out", "elsewhere"}

PathInit ==
  /\ Apart("path")
  /\ eval \in [f : {"get_url_out_path"},
               arg : UrlPaths \X OutDirs \X
                     ({None} \cup {Some(t) : t \in Strings(MaxPrefixLen)}),
               out : {None}]

PathNext == GetUrlOutPath

PathSpec == PathInit /\ [][PathNext]_vars

\* the envelope conversions on payloads of names of up to MaxNameLen bytes
\* and on the envelopes a peer can send for them: the fields as a map in
\* either order or as an array, the level in any integer form that holds it,
\* the name as a fixstr or a str8, a key the struct does not have, and an
\* envelope cut short
MaxNameLen == 1
Names == UNION {[1..k -> {115, 116}] : k \in 0..MaxNameLen}
Levels == {0, 1, 127, 128, 254, 255}
Payloads == [name : Names, level : Levels]

StrForms(str) == {WriteStr(str), <<217, Len(str)>> \o str}
U8Forms(n) ==
  (IF n < 128 THEN {<<n>>} ELSE {}) \cup {<<204, n>>, <<205, 0, n>>}

WireForms(x) ==
  LET names == {WriteStr(KeyName) \o str : str \in StrForms(x.name)}
      levels == {WriteStr(KeyLevel) \o n : n \in U8Forms(x.level)}
      other == WriteStr(<<120>>) \o <<192>>
  IN UNION {{<<128 + 2>> \o n \o l, <<128 + 2>> \o l \o n,
             <<128 + 3>> \o n \o other \o l} : n \in names, l \in levels}
     \cup {<<144 + 2>> \o str \o n :
             str \in StrForms(x.name), n \in U8Forms(x.level)}

Envelopes ==
  LET whole == {Base64Encode(b) : b \in UNION {WireForms(x) : x \in Payloads}}
  IN whole \cup {SubSeq(e, 1, Len(e) - 1) : e \in whole}

EnvInit ==
  /\ Apart("envelope")
  /\ eval \in [f : {"payload"}, arg : Payloads, out : {None}]
               \cup [f : {"envelope"}, arg : Envelopes, out : {None}]

EnvNext == EncodeDecode \/ DecodeEncode

EnvSpec == EnvInit /\ [][EnvNext]_vars

\* the retry strategy for every retry_delay up to MaxDelay and the default,
\* and every retry_count up to the default
MaxDelay == 10
RetryDelays == 0..MaxDelay \cup {DEFAULT_RETRY_DELAY}

BackoffInit ==
  /\ Apart("retry")
  /\ eval \in {[f |-> "retry",
                 arg |-> [retry_delay |-> delay, retry_count |-> n,
                          strategy |-> from_millis(delay)],
                 out |-> <<>>] :
                  delay \in RetryDelays, n \in 0..DEFAULT_RETRY_COUNT}

BackoffNextStep == RetrySleep

BackoffSpec == BackoffInit /\ [][BackoffNextStep]_vars

\* build_post on clients built by any builder, before and after a signup
SignInit ==
  /\ file = FileMissing
  /\ pc = "sign" /\ op = NoOp
  /\ client \in {BuildFrom(b, "U2") :
                   b \in [uuid : {None, Some(TestUuid)},
                          device_type : {None, Some("All")},
                          login_token : {None, Some("supplied")},
                          short_uuid : {None, Some(2)},
                          viewer_id : {None, Some(1), Some(2)}]}
  /\ cache = FetchCacheNew("", "Android")
  /\ reqVersion = "" /\ info = NoInfo /\ result = "none" /\ reqs = <<>>
  /\ fetchState = FState("None", "None", 0) /\ obs = NoObs
  /\ calls = {} /\ eval = NoEval
  /\ wcont = "none"
  /\ start = NoStart /\ hashesAtStart = {}
  /\ work = NoWork
  /\ DlIdle

SignNext ==
  \/ \E e \in Endpoints, b \in Bodies : BuildPost(e, b)
  \/ SignSignup("ok")

SignSpec == SignInit /\ [][SignNext]_vars

\* a WafuriAPIClient built by any builder and called in any order
Builders ==
  [uuid : {None, Some("U1")}, device_type : {None, Some("Ios"), Some("All")},
   login_token : {None, Some("supplied")}, short_uuid : {None, Some(2)},
   viewer_id : {None, Some(2)}]

Answers == [1..2 -> {"ok", "fail"}]

ClientInit ==
  /\ file = FileMissing
  /\ pc = "client" /\ op = NoOp
  /\ client \in {BuildFrom(b, "U2") : b \in Builders}
  /\ cache = FetchCacheNew("", "Android")
  /\ reqVersion = "" /\ info = NoInfo /\ result = "none" /\ reqs = <<>>
  /\ fetchState = FState("None", "None", 0) /\ obs = NoObs
  /\ calls = {} /\ eval = NoEval
  /\ wcont = "none"
  /\ start = NoStart /\ hashesAtStart = {}
  /\ work = NoWork
  /\ DlIdle

ClientNext ==
  \/ \E a \in {"ok", "fail"} : ClSignup(a)
  \/ \E a \in {"ok", "fail"} : ClLoad(a)
  \/ \E as \in Answers : ClGetAssetPath(as)
  \/ \E as \in Answers : ClGetAssetVersionInfo(as)

ClientSpec == ClientInit /\ [][ClientNext]_vars

\* one run of the command line after another: a command builds the Fetcher,
\* spawns its watcher unless --quiet, runs its one operation, awaits the
\* watcher and ends; the process is not killed
MaxWatchArchives == 1
WatchUdids == {"U1", "U2"}
WatchManifests(c) == {m \in get_asset_path(c) : TotalArchives(m) <= MaxWatchArchives}

WatchNext ==
  \/ \E d \in DeviceTypes, u \in WatchUdids, a \in {"ok", "fail"} : New(d, u, a)
  \/ \E cmd \in {"info", "assets", "files"} : Spawn(cmd)
  \/ \E n \in {"info", "files"}, dir \in Dirs :
        result = "none" /\ obs.cmd \in {"none", n} /\ StartOp(n, dir, 0)
  \/ \E dir \in Dirs, c \in 0..MaxConc :
        result = "none" /\ obs.cmd \in {"none", "assets"} /\ StartOp("assets", dir, c)
  \/ GetLatestAssetInfo
  \/ LoadFail
  \/ \E v \in Versions : LoadDone(v)
  \/ \E i \in 1..Len(ResolveRequests(client)) : CallDone(i)
  \/ ResolveFail
  \/ (pc = "resolve" /\ AllAnswered(client, calls) /\
        \E m \in WatchManifests(client), opened \in BOOLEAN : ResolveDone(m, opened))
  \/ \E ok \in BOOLEAN : WriteData(ok)
  \/ InfoReturned
  \/ StartAssetsDownload
  \/ StartFilesDownload
  \/ \E opened \in BOOLEAN : FinishAssetsDownload(opened)
  \/ FinishFilesDownload
  \/ BridgeStep
  \/ ObsStep
  \/ Exit
  \/ DlNext

WatchSpec == Init /\ [][WatchNext]_vars

\* the runtime keeps polling a task that can run: the watcher and the bridge
\* take their turn once their receiver has an unseen value
FairWatchSpec ==
  WatchSpec /\ WF_vars(ObsStep) /\ WF_vars(BridgeStep)

\* the library's operations as in Spec, with the states sent on the Fetcher's
\* channel since the operation in progress was called kept in eval.out
PubInit ==
  /\ file = FileMissing
  /\ pc = "none" /\ op = NoOp
  /\ client = NoClient
  /\ cache = FetchCacheNew("", "Android")
  /\ reqVersion = "" /\ info = NoInfo /\ result = "none" /\ reqs = <<>>
  /\ fetchState = FState("None", "None", 0) /\ obs = NoObs
  /\ calls = {} /\ eval = [f |-> "published", arg |-> <<>>, out |-> <<>>]
  /\ wcont = "none"
  /\ start = NoStart /\ hashesAtStart = {}
  /\ work = NoWork
  /\ DlIdle

PubSpec == PubInit /\ [][Next]_vars

\* the runtime keeps polling every task and future that can make progress,
\* and what the operation awaits is answered in the end: the Downloader's
\* stream and its units, the bridge, and download_assets after join!
FairDownloadSpec ==
  /\ WatchSpec
  /\ WF_vars(DlNext) /\ WF_vars(BridgeStep)
  /\ WF_vars(\E opened \in BOOLEAN : FinishAssetsDownload(opened))
  /\ WF_vars(\E ok \in BOOLEAN : WriteData(ok))

(* ------------------------------ claims --------------------------------- *)
\* download_assets has handed its worklist to the Downloader
Downloading == pc = "download" /\ op.name = "assets"

\* download_assets has derived the new hash set and is writing the cache
PassDone == pc = "write_data" /\ wcont = "final"

\* the manifest get_latest_asset_info returned to the operation
Manifest == info.asset_paths[1]

\* the entries of the manifest, in order, whose hash was not in the cache's
\* set when the pass started
NotSkipped ==
  SelectSeq(AllArchives(Manifest), LAMBDA e : e.sha256 \notin hashesAtStart)

Locations(archives) == [i \in 1..Len(archives) |-> archives[i].location]

Resolved == {i \in 1..Len(units) : units[i].st \in {"ok", "err"}}

Count(st) == Cardinality({i \in 1..Len(dlLog) : dlLog[i].st = st})

\* C1 (as amended): in every download_assets pass an entry whose hash is in
\* the cache's set at the start of the pass contributes no unit: the worklist
\* handed to the Downloader is exactly the locations, in manifest order, of
\* the entries whose hash is not in that set, and the Downloader's units are
\* the worklist's locations.
C1_Worklist ==
  Downloading =>
    /\ cfg.urls = Locations(NotSkipped)
    /\ Len(units) \in {0, Len(cfg.urls)}
    /\ \A i \in 1..Len(units) : units[i].url = cfg.urls[i]

\* C1 reached: a pass has run to the end of the download with one entry
\* skipped (its location not in the worklist) and another one downloaded
C1_Skipped ==
  /\ Downloading /\ dlpc = "returned" /\ cfg.urls # <<>>
  /\ \E e \in Range(AllArchives(Manifest)) :
       e.sha256 \in hashesAtStart /\ e.location \notin Range(cfg.urls)

\* C1 as stated: the location of an entry whose hash is in the set at the
\* start of the pass is not in the worklist and is no unit's location
C1_LocationNotInWorklist ==
  Downloading =>
    \A e \in Range(AllArchives(Manifest)) :
      e.sha256 \in hashesAtStart =>
        /\ e.location \notin Range(cfg.urls)
        /\ \A i \in 1..Len(units) : units[i].url # e.location

\* C2 as stated: after a download_assets pass the cache's hash set is the
\* hashes of the skipped entries together with the hashes of the entries
\* whose location the Downloader reported written, and holds no hash of an
\* entry whose unit exhausted its retries
C2_HashSetExact ==
  PassDone =>
    LET all == Range(AllArchives(Manifest))
        skipped == {e.sha256 : e \in {x \in all : x.sha256 \in hashesAtStart}}
        written == {e.sha256 :
                      e \in {x \in all :
                               x.location \in Range(DownloadedUrls(results))}}
        exhausted == {NotSkipped[i].sha256 :
                        i \in {j \in 1..Len(units) : units[j].st = "err"}}
    IN /\ cache.downloaded_asset_hashes = skipped \cup written
       /\ cache.downloaded_asset_hashes \cap exhausted = {}

\* C3: when the cache's device type differs from the client's, get_asset_info
\* goes on to resolve (both the asset/get_path and the asset/version_info
\* requests are sent for every platform of the client) and does not return
\* the cached manifest, whatever the cached client version is; the manifest
\* it returns from the cache is one of the client's device type.
C3_DeviceForcesResolve ==
  /\ [](info.src = "cache" => cache.device_type = client.device_type)
  /\ [][ (/\ pc = "load" /\ pc' \in {"resolve", "resolved"}
          /\ cache.device_type # client.device_type)
         => /\ pc' = "resolve"
            /\ info'.src # "cache"
            /\ \A i \in 1..Len(Platforms(client.device_type)) :
                 /\ Req("asset/get_path", Platforms(client.device_type)[i])
                      \in Range(reqs')
                 /\ Req("asset/version_info", Platforms(client.device_type)[i])
                      \in Range(reqs') ]_vars

\* C3 reached: get_asset_info is resolving although the cached manifest's
\* client version is the version asked for, the device types differing
C3_ResolvingDespiteVersion ==
  /\ pc = "resolve"
  /\ cache.device_type # client.device_type
  /\ cache.asset_paths # None
  /\ cache.asset_paths[1].info.client_asset_version = reqVersion

\* C4 as stated: when exactly one unit k of the pass fails for good and every
\* other unit succeeds (concurrency >= 1), the Downloader returns all the
\* other locations, one error (k's), and the hash set the pass persists does
\* not hold the hash of k's entry
C4_OneFailureIsolated ==
  (PassDone /\ cfg.concurrency >= 1) =>
    \A k \in 1..Len(units) :
      (/\ units[k].st = "err"
       /\ \A j \in 1..Len(units) : j # k => units[j].st = "ok")
      => /\ Len(DownloadedUrls(results)) = Len(units) - 1
         /\ Len(DownloadErrors(results)) = 1
         /\ DownloadErrors(results)[1].url = units[k].url
         /\ NotSkipped[k].sha256 \notin cache.downloaded_asset_hashes

\* C5 as stated: an operation that fails leaves the cache file what it was
\* when the operation started, and an operation that succeeds leaves the
\* cache file holding the Fetcher's cache
C5_FailureLeavesFile ==
  [][ /\ (pc # "none" /\ result' = "err") => (FileUnchanged /\ file' = file)
      /\ (pc # "none" /\ result' = "ok") => file' = FileOf(cache') ]_vars

\* C6 as stated: wherever an operation can be interrupted, the cache file is
\* what the operation found or holds the whole of the Fetcher's cache
C6_FileNeverTorn ==
  pc \notin {"none", "standalone"} => (FileUnchanged \/ file = FileOf(cache))

\* C7: at every moment of Downloader::download the units in flight (from the
\* first attempt to the success or the last failed attempt, backoff waits
\* included) number at most the concurrency limit.
C7_InFlightBounded == Cardinality(InFlight) <= cfg.concurrency

\* C7 reached: the limit is met while a unit waits and another has resolved
C7_LimitMet ==
  /\ cfg.concurrency >= 1
  /\ Cardinality(InFlight) = cfg.concurrency
  /\ Pending # {} /\ Resolved # {}

C10_StatesMatchResults ==
  /\ dlLog # <<>> => dlLog[1] = DState("DownloadStart", Len(cfg.urls))
  /\ Count("DownloadStart") <= 1
  /\ Count("FileDownload") = Cardinality({i \in Resolved : units[i].st = "ok"})
  /\ Count("DownloadError") = Cardinality({i \in Resolved : units[i].st = "err"})
  /\ Count("FileDownload") = Len(DownloadedUrls(results))
  /\ Count("DownloadError") = Len(DownloadErrors(results))
  /\ dlpc = "returned" =>
       Len(DownloadedUrls(results)) + Len(DownloadErrors(results)) = Len(cfg.urls)

\* C10 reached: download has returned for three locations with both a
\* FileDownload and a DownloadError published
C10_BothKindsPublished ==
  /\ dlpc = "returned" /\ Len(cfg.urls) = 3
  /\ Count("FileDownload") >= 1 /\ Count("DownloadError") >= 1

\* C11: publishing never blocks the producer. Wherever a producer stands at a
\* step that publishes on the Downloader's or on the Fetcher's channel, that
\* step can be taken, whatever the receivers have or have not read: whether a
\* watcher has seen the value before, has not, or none exists.
C11_PublishNeverBlocks ==
  /\ dlpc = "start" => ENABLED DlBegin
  /\ dlpc = "run" =>
       \A i \in InFlight : \A r \in UnitResults(cfg.retry_count) :
         ENABLED UnitDone(i, r)
  /\ (dlpc = "run" /\ StreamDone(cfg.concurrency)) => ENABLED DlFinish
  /\ (pc = "download" /\ dlChanged /\ ~bridgeDone) => ENABLED BridgeStep
  /\ pc = "idle" =>
       \A n \in {"info", "assets", "files"} : ENABLED StartOp(n, "dir", 1)
  /\ pc = "latest" => ENABLED GetLatestAssetInfo
  /\ pc = "load" => \A v \in Versions : ENABLED LoadDone(v)
  /\ pc = "write_data" => ENABLED WriteData(TRUE)
  /\ (pc = "resolved" /\ op.name = "assets") => ENABLED StartAssetsDownload
  /\ (pc = "resolved" /\ op.name = "files") => ENABLED StartFilesDownload
  /\ (pc = "download" /\ op.name = "files" /\ dlpc = "returned" /\ bridgeDone)
       => ENABLED FinishFilesDownload

\* the Downloader has finished a pass of which the bridge has read nothing,
\* and the watcher has not read what the operation published last
C11_PassDoneUnread ==
  /\ pc = "download" /\ dlpc = "returned" /\ results # <<>>
  /\ dlChanged /\ fetchState.st = "DownloadStart"
  /\ obs.cmd = "assets" /\ obs.rx = "unseen"

\* C12: once an operation has returned Ok, the watcher of its command, however
\* many states it missed, comes to read the operation's terminal state and
\* leaves its loop; and once the Downloader has published Finish and returned,
\* the bridge comes to read Finish, however many per-unit states it missed.
C12_TerminalObserved ==
  /\ (pc = "idle" /\ result = "ok" /\ obs.cmd # "none") ~> (obs.rx = "done")
  /\ (pc = "download" /\ dlpc = "returned") ~> bridgeDone

\* the watcher of download_assets has left its loop on the terminal state
\* after values it never read were replaced
C12_DoneAfterMisses ==
  /\ pc = "idle" /\ result = "ok"
  /\ obs.cmd = "assets" /\ obs.rx = "done" /\ obs.missed

\* an invocation of an operation ends: it returns Ok or Err to its caller
InvocationEnds ==
  /\ pc \notin {"none", "idle", "standalone"}
  /\ pc' \in {"none", "idle"}
  /\ result' \in {"ok", "err"}

\* C13 (as amended): every invocation of get_latest_asset_info,
\* download_assets or download_files_list that returns Ok has published, as
\* its last state, the terminal state of that operation, and the state stays
\* the channel's value until the next operation starts.
C13_OkEndsTerminal ==
  /\ [][(InvocationEnds /\ result' = "ok") => fetchState' = Terminal(op.name)]_vars
  /\ [](pc = "idle" /\ result = "ok" => fetchState.st = "Finish")

\* download_files_list has returned Ok and its terminal state is the
\* channel's value
C13_FilesListDone ==
  /\ pc = "idle" /\ result = "ok"
  /\ fetchState = FState("DownloadFilesList", "Finish", 0)

\* C13 (as stated): the last state published by every invocation, whether it
\* returns Ok or Err, is the terminal state of its operation.
C13_EveryInvocationEndsTerminal ==
  [][InvocationEnds =>
       (IF result' = "ok" THEN fetchState' ELSE fetchState) = Terminal(op.name)]_vars

\* the calls of WafuriAPIClient that need a viewer id
Authenticated == {"load", "get_asset_path", "get_asset_version_info"}

\* C14: a client without a viewer id sends no load, get_asset_path or
\* get_asset_version_info request: the call sends nothing and returns None (an
\* empty list for version info), not an error; and no such request is ever
\* among those a client without a viewer id has sent.
C14_NoViewerNoRequest ==
  (client.viewer_id = None /\ eval.f \in Authenticated) =>
    /\ reqs = <<>>
    /\ result = IF eval.f = "get_asset_version_info" THEN "empty" ELSE "none"

\* a client that holds a token and no viewer id was asked for version info
C14_EmptyListWithToken ==
  /\ pc = "client" /\ eval.f = "get_asset_version_info"
  /\ client.viewer_id = None /\ client.login_token # None
  /\ result = "empty"

\* C15: a client that holds a login token, from a signup or from the builder,
\* keeps that token in every step; and a call to signup it makes sends no
\* request, leaves login token, short uuid and viewer id as they are, and
\* returns None.
C15_SignupIdempotent ==
  [][client.login_token # None =>
       /\ client'.login_token = client.login_token
       /\ eval'.f = "signup" =>
            /\ reqs' = <<>> /\ result' = "none"
            /\ client'.short_uuid = client.short_uuid
            /\ client'.viewer_id = client.viewer_id]_vars

\* signup was called again on a client that had signed up, and on a client
\* whose token came from the builder without a viewer id: neither sent
C15_SecondSignup ==
  /\ pc = "client" /\ eval.f = "signup" /\ result = "none" /\ reqs = <<>>
  /\ client.login_token \in {Some("token"), Some("supplied")}
  /\ client.login_token = Some("supplied") => client.viewer_id = None

\* C16: while get_asset_info resolves, in whatever order the calls answer, the
\* cache, the cache file and what the operation holds stay as they are; the
\* resolution completes only when every call has answered with success, and
\* for the device type All with a manifest merged from both platforms; a call
\* that fails ends the operation with an error, nothing returned and the
\* cache file not written.
C16_AllOrNothing ==
  [][pc = "resolve" =>
       /\ pc' = "resolve" => (cache' = cache /\ file' = file /\ info' = info)
       /\ pc' = "write_data" =>
            /\ Waiting(client, calls) = {}
            /\ client.device_type = "All" =>
                 cache'.asset_paths \in {Some(Stamp(m)) : m \in MergedManifests}
       /\ pc' \notin {"resolve", "write_data"} =>
            (info' = NoInfo /\ file' = file)]_vars

\* device type All: every call but get_asset_path for Android has answered,
\* and no manifest has been returned or put in the cache
C16_OneCallOutstanding ==
  /\ pc = "resolve" /\ client.device_type = "All"
  /\ Waiting(client, calls) = {1}
  /\ info = NoInfo /\ cache.asset_paths = None

\* the content hashes of a list of archives, and whether none comes twice
HashesOf(archives) == {archives[i].sha256 : i \in 1..Len(archives)}
NoHashTwice(archives) ==
  \A i, j \in 1..Len(archives) : archives[i].sha256 = archives[j].sha256 => i = j

\* the identities of a manifest's diff sets, and the content hashes of the
\* diff sets of an identity
DiffIds(m) ==
  {<<m.diff[i].version, m.diff[i].original_version>> : i \in 1..Len(m.diff)}
DiffHashes(m, id) ==
  UNION { HashesOf(m.diff[i].archive) :
            i \in {j \in 1..Len(m.diff) :
                     <<m.diff[j].version, m.diff[j].original_version>> = id} }

\* C17: extend(M, M) has the content hashes of M's full list, none twice, and
\* diff sets of exactly M's identities (version, original_version), each with
\* the content hashes M has for that identity, none twice.
C17_ExtendIdempotent ==
  (pc = "extend" /\ eval.arg[1] = eval.arg[2] /\ eval.out.ab # None) =>
    LET m == eval.arg[1]
        r == eval.out.ab[1]
    IN /\ HashesOf(r.full.archive) = HashesOf(m.full.archive)
       /\ NoHashTwice(r.full.archive)
       /\ DiffIds(r) = DiffIds(m)
       /\ \A id \in DiffIds(m) : DiffHashes(r, id) = DiffHashes(m, id)
       /\ \A i \in 1..Len(r.diff) : NoHashTwice(r.diff[i].archive)

\* C18: extend(A, B) and extend(B, A) have the same full-list content hashes
\* and the same diff set identities, each with the same content hashes.
C18_ExtendCommutes ==
  (pc = "extend" /\ eval.out.ab # None /\ eval.out.ba # None) =>
    LET x == eval.out.ab[1]
        y == eval.out.ba[1]
    IN /\ HashesOf(x.full.archive) = HashesOf(y.full.archive)
       /\ DiffIds(x) = DiffIds(y)
       /\ \A id \in DiffIds(x) : DiffHashes(x, id) = DiffHashes(y, id)

\* C19: download_assets or download_files_list fails on its output path (it
\* exists and is not a directory) with no request sent to the upstream
\* service or to a download location before the failure. A Fetcher that stands
\* idle fails an operation at once only through validate_dir.
C19_NoRequestBeforeNotDirectory ==
  [][(pc = "idle" /\ pc' = "none" /\ result' = "err") => reqs = <<>>]_vars

\* a Fetcher with a cache and a client
HasFetcher == pc \notin {"none", "standalone", "client", "extend"}

\* C20: a Fetcher built from a loaded cache file has a client whose uuid is
\* the file's udid; in every state of a Fetcher the cache's udid is the
\* client's uuid, and so is the udid of every cache file it writes; a uuid is
\* generated only when no cache file could be loaded.
C20_IdentityStable ==
  /\ [](HasFetcher => cache.udid = client.uuid)
  /\ [][(pc = "none" /\ pc' = "idle" /\ from_path(file) # None) =>
          client'.uuid = file.rec[1].udid]_vars
  /\ [][(file' # file /\ file'.st = "valid") =>
          file'.rec[1].udid = client.uuid]_vars

\* a Fetcher has just been built, before any operation, from the cache file
\* that an earlier run, which had generated the uuid U2, wrote after a download
C20_SecondRunSameIdentity ==
  /\ pc = "idle" /\ result = "none"
  /\ file.st = "valid" /\ file.rec[1].udid = "U2" /\ client.uuid = "U2"
  /\ file.rec[1].downloaded_asset_hashes # {}

\* C21: a run whose Fetcher::new loads a cache file sends no signup request;
\* only a run that finds no usable cache file signs up.
C21_LoadedCacheNoSignup ==
  [][(pc = "none" /\ from_path(file) # None /\ reqs' # reqs) =>
       \A i \in 1..Len(reqs') : reqs'[i].path # "tool/signup"]_vars

\* C22: a cache file that is missing or does not hold a cache never makes
\* Fetcher::new fail: with the signup answered, the Fetcher is built, with a
\* cache of the client's generated uuid and device type, no manifest, no
\* version info and no hash; and the file stays as it is until a cache write.
C22_StartFresh ==
  /\ []((pc = "none" /\ from_path(file) = None) =>
          \A d \in DeviceTypes, u \in Udids :
            ENABLED (New(d, u, "ok") /\ pc' = "idle"))
  /\ [][(pc = "none" /\ from_path(file) = None /\ pc' = "idle") =>
          /\ cache' = [device_type |-> client'.device_type,
                       udid |-> client'.uuid, version_info |-> <<>>,
                       asset_paths |-> None, downloaded_asset_hashes |-> {}]
          /\ client'.uuid \in Udids
          /\ file' = file]_vars
  /\ [][file' # file => (pc' = "write_data" \/ pc = "write_data")]_vars

\* a Fetcher for the device type All stands built over a cache file that a
\* failed write had left without a cache
C22_BuiltOverEmptiedFile ==
  /\ pc = "idle" /\ result = "none"
  /\ file.st = "truncated"
  /\ cache = FetchCacheNew(client.uuid, "All")

\* the path with the prefix removed when it starts with it, then with one
\* leading separator removed
Remainder(url_path, prefix) ==
  LET a == IF prefix # None /\ strip_prefix(url_path, prefix[1]) # None
           THEN strip_prefix(url_path, prefix[1])[1] ELSE url_path
  IN IF a # <<>> /\ a[1] = Sep THEN Tail(a) ELSE a

\* C23: the destination is the output directory joined with the url's path
\* after the prefix, when the path starts with it, and then one leading
\* separator have been removed: it lies under the output directory.
C23_Destination ==
  (pc = "path" /\ eval.out # None) =>
    eval.out[1] = [base |-> eval.arg[2],
                   rest |-> Remainder(eval.arg[1], eval.arg[3])]

\* C24: two requests built with the same uuid, the same viewer id, the same
\* endpoint and the same body carry the same param header, whatever token,
\* short uuid and device type the client held and whatever it did in between:
\* the header is the checksum of the uuid, the viewer id in decimal digits
\* (nothing when there is none), the url's path and the body; for the request
\* of crypto.rs's test it is the checksum the test expects
SameFourInputs(r, q) ==
  /\ r.by.uuid = q.by.uuid /\ r.by.viewer_id = q.by.viewer_id
  /\ r.path = q.path /\ r.body = q.body

C24_SignatureOfFourInputs ==
  eval.f = "build_post" =>
    \A i, j \in 1..Len(eval.out) :
      LET r == eval.out[i]
          q == eval.out[j]
      IN /\ SameFourInputs(r, q) => r.param = q.param
         /\ r.param = Checksum(r.by.uuid, r.by.viewer_id, r.path, r.body)
         /\ (r.by.uuid = TestUuid /\ r.by.viewer_id = None
               /\ r.path = "tool/signup" /\ r.body = "A=")
              => r.param =
                   <<"4", "7", "4", "9", "e", "6", "1", "6", "9", "4", "c",
                     "3", "1", "6", "0", "0", "a", "d", "5", "e", "5", "6",
                     "4", "b", "f", "2", "2", "b", "8", "e", "3", "c", "6",
                     "8", "d", "8", "d", "2", "6", "d">>

\* C24 reached: the request of crypto.rs's test was built twice by a client
\* that holds a token, a short uuid and the device type All
C24_TestRequestTwice ==
  /\ eval.f = "build_post" /\ Len(eval.out) = 2
  /\ SameFourInputs(eval.out[1], eval.out[2])
  /\ eval.out[2].by.uuid = TestUuid /\ eval.out[2].by.viewer_id = None
  /\ eval.out[2].path = "tool/signup" /\ eval.out[2].body = "A="
  /\ eval.out[2].by.login_token # None /\ eval.out[2].by.short_uuid # None
  /\ eval.out[2].by.device_type = "All"

\* C25 as stated: a payload that is encoded and decoded is the payload again,
\* and an envelope that decodes to a payload is, once that payload is encoded
\* again, the envelope again
C25_RoundTrips ==
  /\ (eval.f = "payload" /\ eval.out # None) => eval.out[1] = Some(eval.arg)
  /\ (eval.f = "envelope" /\ eval.out # None /\ eval.out[1] # None)
       => eval.out[1] = Some(eval.arg)

\* the half of C25 that starts from a payload
C25_PayloadRoundTrips ==
  (eval.f = "payload" /\ eval.out # None) => eval.out[1] = Some(eval.arg)

\* C26 as stated: for a unit that keeps failing, the k-th delay slept, k from 1
\* to retry_count, is retry_delay * 2^(k-1) milliseconds
C26_WaitsDouble ==
  eval.f = "retry" =>
    \A k \in 1..Len(eval.out) :
      eval.out[k] = U64(eval.arg.retry_delay * (2^(k - 1)))

\* what the strategy yields: the k-th delay is retry_delay^k milliseconds
RECURSIVE Power(_, _)
Power(w, k) == IF k = 0 THEN U64(1) ELSE checked_mul(Power(w, k - 1), w)[1]

C26_WaitsArePowers ==
  eval.f = "retry" =>
    \A k \in 1..Len(eval.out) : eval.out[k] = Power(eval.arg.retry_delay, k)

\* C27: when the cache holds a manifest whose client version is the version
\* asked for and the cache's device type is the client's, get_asset_info
\* publishes AssetInfo(Finish), returns the cached version info list and the
\* cached manifest, sends no get_path and no version_info request, and leaves
\* the cache and the cache file as they are.
HeldFor(asset_version) ==
  /\ cache.asset_paths # None
  /\ cache.asset_paths[1].info.client_asset_version = asset_version
  /\ cache.device_type = client.device_type

C27_CacheHitFrame ==
  [][ \A v \in Versions :
        (LoadDone(v) /\ HeldFor(v))
          => /\ fetchState' = FState("AssetInfo", "Finish", 0)
             /\ pc' = "resolved"
             /\ info'.version_info = cache.version_info
             /\ info'.asset_paths = cache.asset_paths
             /\ reqs' = reqs
             /\ \A r \in Range(reqs') :
                  r.path \notin {"asset/get_path", "asset/version_info"}
             /\ cache' = cache /\ file' = file ]_vars

\* C27 reached: get_asset_info has returned the cached manifest to
\* download_assets, the cache file holding the cache
C27_ReturnedFromCache ==
  /\ pc = "resolved" /\ op.name = "assets"
  /\ info.src = "cache" /\ info.asset_paths = cache.asset_paths
  /\ fetchState = FState("AssetInfo", "Finish", 0)
  /\ file = FileOf(cache)
  /\ reqs = <<Req("load", "")>>

\* C28: on a fresh resolution get_asset_info publishes AssetInfo(Finish) only
\* when the cache has been written: until then the channel holds
\* AssetInfo(GetAssetInfo); at the step that publishes it the cache file holds
\* the version info list and the manifest just resolved, the manifest's client
\* version being its target version, and the client's device type; a step on
\* which a resolve call or the write fails does not publish it.
Resolving == pc = "resolve" \/ (pc = "write_data" /\ wcont = "info")

C28_DoneAfterWrite ==
  /\ [](Resolving => fetchState = FState("AssetInfo", "GetAssetInfo", 0))
  /\ [][ /\ (Resolving /\ fetchState' = FState("AssetInfo", "Finish", 0))
             => /\ file'.st = "valid"
                /\ file'.rec[1].version_info = get_asset_version_info(client)
                /\ file'.rec[1].version_info = info'.version_info
                /\ file'.rec[1].asset_paths = info'.asset_paths
                /\ file'.rec[1].asset_paths[1].info.client_asset_version =
                     file'.rec[1].asset_paths[1].info.target_asset_version
                /\ file'.rec[1].asset_paths[1].info.target_asset_version
                     \in TargetVersions
                /\ file'.rec[1].device_type = client.device_type
         /\ (Resolving /\ result' = "err")
             => fetchState' # FState("AssetInfo", "Finish", 0) ]_vars

\* C28 reached: a fresh resolution has published AssetInfo(Finish), the cache
\* file having held another cache before the write
C28_FreshDone ==
  /\ pc = "resolved" /\ info.src = "fresh"
  /\ fetchState = FState("AssetInfo", "Finish", 0)
  /\ file = FileOf(cache)
  /\ start.st = "valid" /\ ~start.same

\* the order in which download_assets sends its states: b may be the state
\* sent next after a
Follows(a, b) ==
  CASE a = <<"DownloadAssets", "FetchAssetInfo">> ->
         b = <<"AssetInfo", "GetAssetVersion">>
    [] a = <<"AssetInfo", "GetAssetVersion">> ->
         b \in {<<"AssetInfo", "GetAssetInfo">>, <<"AssetInfo", "Finish">>}
    [] a = <<"AssetInfo", "GetAssetInfo">> -> b = <<"AssetInfo", "Finish">>
    [] a = <<"AssetInfo", "Finish">> -> b = <<"DownloadAssets", "DownloadStart">>
    [] a = <<"DownloadAssets", "DownloadStart">> ->
         b = <<"DownloadAssets", "Download">>
    [] a = <<"DownloadAssets", "Download">> ->
         b \in {<<"DownloadAssets", "Download">>, <<"DownloadAssets", "Finish">>}
    [] OTHER -> FALSE

\* the states sent since download_assets was called, while it runs or after
\* it has returned Ok
SentByAssets ==
  IF eval.f = "published" /\ eval.out # <<>>
     /\ eval.out[1][1] = "DownloadAssets"
     /\ (op.name = "assets" \/ (pc = "idle" /\ result = "ok"))
  THEN [i \in 1..Len(eval.out) |-> <<eval.out[i][1], eval.out[i][2]>>]
  ELSE <<>>

AssetsReturnedOk ==
  pc = "idle" /\ result = "ok" /\ SentByAssets # <<>>

\* C29 (as amended): the states download_assets sends on the Fetcher's
\* channel are, in this order: DownloadAssets(FetchAssetInfo) first; then the
\* states of the get_latest_asset_info it calls, AssetInfo(GetAssetVersion),
\* AssetInfo(GetAssetInfo) on a fresh resolution, AssetInfo(Finish); then
\* DownloadAssets(DownloadStart) once; then bridged Downloader states, at
\* least one and nothing else; then DownloadAssets(Finish) once, the last
\* state of a call that returns Ok. No bridged state comes before
\* DownloadStart or after Finish, and the step that sends Finish leaves the
\* cache file holding the cache with the new hash set.
C29_OrderedWithNestedInfo ==
  /\ [](\A i \in 1..Len(SentByAssets) :
         IF i = 1 THEN SentByAssets[i] = <<"DownloadAssets", "FetchAssetInfo">>
         ELSE Follows(SentByAssets[i - 1], SentByAssets[i]))
  /\ [](AssetsReturnedOk =>
         /\ SentByAssets[Len(SentByAssets)] = <<"DownloadAssets", "Finish">>
         /\ fetchState = FState("DownloadAssets", "Finish", 0))
  /\ [][(fetchState' = FState("DownloadAssets", "Finish", 0)
           /\ fetchState' # fetchState) =>
          /\ pc = "write_data" /\ pc' = "idle" /\ result' = "ok"
          /\ cache' = cache /\ file' = FileOf(cache)
          /\ cache.downloaded_asset_hashes =
               InsertDownloaded(DownloadedUrls(results), work.map,
                                work.newHashes)]_vars

\* C29 reached: download_assets has returned Ok after a fresh resolution and
\* after the bridge relayed three or more Downloader states, one archive
\* having been fetched and its hash being in the cache file
C29_FullStreamSent ==
  /\ AssetsReturnedOk
  /\ Len(SentByAssets) >= 9
  /\ SentByAssets[3] = <<"AssetInfo", "GetAssetInfo">>
  /\ file = FileOf(cache) /\ cache.downloaded_asset_hashes # {}

\* C29 (as stated): the states sent during a download_assets that returns Ok
\* are DownloadAssets states only.
C29_OnlyDownloadStates ==
  AssetsReturnedOk =>
    \A i \in 1..Len(SentByAssets) : SentByAssets[i][1] = "DownloadAssets"

\* the sum of the declared sizes of a list of archive entries
RECURSIVE SumSizes(_)
SumSizes(archives) ==
  IF archives = <<>> THEN 0
  ELSE Head(archives).size + SumSizes(Tail(archives))

\* the entries of the worklist whose unit has been written: the i-th unit
\* fetches the location of the i-th entry placed in the worklist
WrittenOk ==
  SelectSeq([i \in 1..Len(units) |-> [size |-> NotSkipped[i].size,
                                        ok |-> units[i].st = "ok"]],
            LAMBDA u : u.ok)

\* C30: the total download_assets announces in DownloadStart is the sum of
\* the declared sizes of the entries it placed in the worklist, which are the
\* manifest's entries whose hash is not in the cached set, the skipped entries
\* adding nothing; the Downloader's units are these entries, one each, so the
\* declared sizes of the units written never exceed the total and sum to it
\* when every unit has succeeded.
C30_TotalIsWorklistSum ==
  /\ [][(pc = "resolved" /\ op.name = "assets" /\ pc' = "download") =>
          /\ fetchState' = FState("DownloadAssets", "DownloadStart",
                                  SumSizes(NotSkipped))
          /\ work'.urls = Locations(NotSkipped)
          /\ work'.total = SumSizes(NotSkipped)]_vars
  /\ [](Downloading =>
         /\ work.total = SumSizes(NotSkipped)
         /\ cfg.urls = Locations(NotSkipped)
         /\ Len(units) \in {0, Len(NotSkipped)}
         /\ fetchState.st = "DownloadStart" => fetchState.arg = work.total
         /\ SumSizes(WrittenOk) <= work.total
         /\ (dlpc = "returned" /\ \A i \in 1..Len(units) : units[i].st = "ok")
              => SumSizes(WrittenOk) = work.total)

\* C30 reached: a pass over a manifest of two entries skipped one and placed
\* the other in the worklist; its unit has been written and its declared size
\* is the total, less than the sizes of the manifest's entries together
C30_AllWrittenWithSkip ==
  /\ Downloading /\ dlpc = "returned"
  /\ Len(AllArchives(Manifest)) = 2 /\ Len(NotSkipped) = 1
  /\ Len(units) = 1 /\ units[1].st = "ok"
  /\ work.total = SumSizes(WrittenOk) /\ work.total = NotSkipped[1].size
  /\ SumSizes(AllArchives(Manifest)) > work.total

\* C31: the full list of extend(A, B) has each content hash of A's or B's
\* full list once, the entry kept for a hash being its first occurrence in A's
\* archives followed by B's, and the entries stand in the order in which they
\* were first met: the result's full list is the list of first occurrences.
C31_FullInDiscoveryOrder ==
  (pc = "extend" /\ eval.out.ab # None) =>
    eval.out.ab[1].full.archive =
      FirstBySha(eval.arg[1].full.archive \o eval.arg[2].full.archive, {})

\* the part of C31 that is not about order: the entries of the result's full
\* list are the first occurrences, each once
C31_FullFirstOccurrences ==
  (pc = "extend" /\ eval.out.ab # None) =>
    LET r == eval.out.ab[1].full.archive
        first == FirstBySha(eval.arg[1].full.archive \o
                            eval.arg[2].full.archive, {})
    IN /\ Range(r) = Range(first) /\ Len(r) = Len(first)
       /\ NoHashTwice(r)

\* C32: extend(A, B) has exactly one diff set for every pair (version,
\* original_version) occurring among the diff sets of A or B, carrying that
\* pair, with each content hash of the diff sets of that pair once; diff sets
\* of one version and different original versions stay apart.
C32_DiffsUnitedByPair ==
  (pc = "extend" /\ eval.out.ab # None) =>
    LET a == eval.arg[1]
        b == eval.arg[2]
        r == eval.out.ab[1]
    IN /\ DiffIds(r) = DiffIds(a) \cup DiffIds(b)
       /\ Len(r.diff) = Cardinality(DiffIds(a) \cup DiffIds(b))
       /\ \A id \in DiffIds(r) :
            DiffHashes(r, id) = DiffHashes(a, id) \cup DiffHashes(b, id)
       /\ \A i \in 1..Len(r.diff) : NoHashTwice(r.diff[i].archive)

\* what extend does instead: one diff set for every version, carrying the
\* original version of the first diff set of that version in A's diff sets
\* followed by B's, with each content hash of the diff sets of that version
\* once
C32_DiffsUnitedByVersion ==
  (pc = "extend" /\ eval.out.ab # None) =>
    LET chain == eval.arg[1].diff \o eval.arg[2].diff
        r == eval.out.ab[1]
        versions == {chain[i].version : i \in 1..Len(chain)}
    IN /\ {r.diff[i].version : i \in 1..Len(r.diff)} = versions
       /\ Len(r.diff) = Cardinality(versions)
       /\ \A i \in 1..Len(r.diff) :
            /\ r.diff[i].original_version =
                 DiffsOfKey(chain, r.diff[i].version)[1].original_version
            /\ HashesOf(r.diff[i].archive) =
                 HashesOf(ConcatArchives(DiffsOfKey(chain, r.diff[i].version)))
            /\ NoHashTwice(r.diff[i].archive)

\* the requests of get_asset_path and get_asset_version_info
Resolves == {"asset/get_path", "asset/version_info"}

\* C33: no request of get_asset_path or get_asset_version_info carries the
\* device header of DeviceType::All: each carries that of Android or of Ios.
\* A client with a viewer id sends one request per call when its device type
\* is Android or Ios, naming that platform, and two when it is All, the first
\* naming Android and the second Ios. get_asset_version_info returns at most
\* one entry for Android or Ios and at most two for All, Android's entry
\* before Ios's.
C33_AllNeverOnTheWire ==
  /\ \A i \in 1..Len(reqs) :
       reqs[i].path \in Resolves =>
         DeviceHeader(reqs[i]) \in {Some("1"), Some("2")}
  /\ (pc = "client" /\ eval.f \in {"get_asset_path", "get_asset_version_info"}
      /\ client.viewer_id # None) =>
       [i \in 1..Len(reqs) |-> DeviceHeader(reqs[i])] =
         IF client.device_type = "All" THEN <<Some("2"), Some("1")>>
         ELSE <<Some(DeviceTypeToString(client.device_type))>>
  /\ (pc = "client" /\ eval.f = "get_asset_version_info") =>
       /\ Len(eval.out) <= (IF client.device_type = "All" THEN 2 ELSE 1)
       /\ result = "some" =>
            eval.out = IF client.device_type = "All"
                       THEN <<ServedVersionInfo("Android"),
                              ServedVersionInfo("Ios")>>
                       ELSE <<ServedVersionInfo(client.device_type)>>

\* C33 reached: a client of device type All has asked for the version info
\* with two requests and has both platforms' entries
C33_BothPlatformsAsked ==
  /\ pc = "client" /\ eval.f = "get_asset_version_info"
  /\ client.device_type = "All" /\ result = "some"
  /\ Len(reqs) = 2 /\ Len(eval.out) = 2

\* the hash set the cache file holds: none when the file holds no record
HashesIn(f) ==
  IF f.st = "valid" THEN f.rec[1].downloaded_asset_hashes ELSE {}

\* download_files_list returns, Ok or Err
FilesListEnds ==
  /\ op.name = "files"
  /\ pc' \in {"none", "idle"} /\ result' \in {"ok", "err"}

\* download_files_list has handed its worklist to the Downloader
FilesDownloading == pc = "download" /\ op.name = "files"

\* C34: download_files_list never changes the downloaded-hash set: while it
\* runs and when it returns, Ok or Err, having rewritten the cache or not, the
\* Fetcher's hash set is the one it had when the operation started and the
\* cache file holds the hash set it held then; the worklist is the files_list
\* locations of the first two entries of the version info list, at most two,
\* and the Downloader is given a concurrency of 2.
C34_HashSetUntouched ==
  /\ [](op.name = "files" => cache.downloaded_asset_hashes = hashesAtStart)
  /\ [](FilesDownloading =>
         /\ cfg.urls = FilesListUrls(info.version_info)
         /\ Len(cfg.urls) <= 2 /\ cfg.concurrency = 2)
  /\ [][FilesListEnds =>
          /\ HashesIn(file') = start.hashes
          /\ result' = "ok" => cache'.downloaded_asset_hashes = hashesAtStart]_vars

\* what holds of C34: the same, the cache file being considered only when
\* download_files_list does not return from a failed write of the cache
C34_UntouchedUnlessWriteFails ==
  /\ [](op.name = "files" => cache.downloaded_asset_hashes = hashesAtStart)
  /\ [](FilesDownloading =>
         /\ cfg.urls = FilesListUrls(info.version_info)
         /\ Len(cfg.urls) <= 2 /\ cfg.concurrency = 2)
  /\ [][(FilesListEnds /\ pc # "write_data") =>
          /\ HashesIn(file') = start.hashes
          /\ result' = "ok" => cache'.downloaded_asset_hashes = hashesAtStart]_vars

\* C35: the worklist download_assets hands to the Downloader holds no content
\* hash twice and no location twice, so no archive is a unit twice in a pass.
C35_WorklistNoDuplicates ==
  Downloading =>
    /\ NoHashTwice(NotSkipped)
    /\ \A i, j \in 1..Len(cfg.urls) : cfg.urls[i] = cfg.urls[j] => i = j
    /\ \A i, j \in 1..Len(units) : units[i].url = units[j].url => i = j

\* what the worklist is instead: every entry of the manifest whose hash is
\* not in the cached set, as often as the manifest lists it
C35_WorklistIsEveryUnskippedEntry ==
  Downloading =>
    /\ cfg.urls = Locations(NotSkipped)
    /\ Len(units) \in {0, Len(NotSkipped)}

\* C36: for every url path, output directory and strip prefix the destination
\* get_url_out_path computes lies under the output directory: the join keeps
\* the output directory as the base of the path.
C36_UnderOutputRoot ==
  (pc = "path" /\ eval.out # None) => eval.out[1].base = eval.arg[2]

\* where the destination does lie under the output directory: whenever the
\* prefix is absent or does not match, or what is left after it starts with
\* one separator and no more
C36_UnderRootWhenOneSeparatorLeft ==
  (pc = "path" /\ eval.out # None) =>
    LET url_path == eval.arg[1]
        prefix == eval.arg[3]
        left == IF prefix # None /\ strip_prefix(url_path, prefix[1]) # None
                THEN strip_prefix(url_path, prefix[1])[1] ELSE url_path
    IN (Len(left) >= 1 /\ left[1] = Sep /\ (Len(left) >= 2 => left[2] # Sep))
         <=> eval.out[1].base = eval.arg[2]

\* get_asset_info(reqVersion) returns Ok from a fresh resolution
FreshResolutionReturns ==
  pc = "write_data" /\ wcont = "info" /\ pc' = "resolved"

\* C37: when get_asset_info(v) returns from a successful fresh resolution, the
\* cache it leaves is valid for v, so that a get_asset_info(v) that follows on
\* the same Fetcher takes the cached manifest: it sends no request of
\* get_asset_path or get_asset_version_info and does not write the cache,
\* whatever target version the resolved manifest carries.
C37_FreshThenHit ==
  [][FreshResolutionReturns => CacheValid(cache', client', reqVersion)]_vars

\* what holds instead: the cache a fresh resolution for v leaves is valid for
\* the target version of the resolved manifest, and so for v only when the
\* service answered with a manifest that targets v
C37_HitForTargetVersion ==
  [][FreshResolutionReturns =>
       /\ CacheValid(cache', client',
                     cache'.asset_paths[1].info.target_asset_version)
       /\ CacheValid(cache', client', reqVersion)
            <=> cache'.asset_paths[1].info.target_asset_version = reqVersion]_vars

\* C38: whatever the worklist, the concurrency limit (0 included), the retry
\* count and the units' outcomes, Downloader::download ends by publishing
\* Finish and returning, the bridge then ends, and download_assets returns.
C38_DownloadAlwaysEnds ==
  /\ (dlpc = "start") ~> (dlpc = "returned" /\ dlState = DState("Finish", 0))
  /\ Downloading ~> (Downloading /\ bridgeDone)
  /\ Downloading ~> ~Downloading

\* what holds of C38: with a concurrency limit of 1 or more
C38_EndsWithPositiveLimit ==
  /\ (dlpc = "start" /\ cfg.concurrency >= 1)
       ~> (dlpc = "returned" /\ dlState = DState("Finish", 0))
  /\ (Downloading /\ op.concurrency >= 1) ~> (Downloading /\ bridgeDone)
  /\ (Downloading /\ op.concurrency >= 1) ~> ~Downloading

\* the hashes of the manifest's entries the pass skipped, and of the entries
\* whose unit was written
SkippedHashes ==
  {e.sha256 : e \in {x \in Range(AllArchives(Manifest)) : x.sha256 \in hashesAtStart}}
WrittenHashes ==
  {NotSkipped[i].sha256 : i \in {j \in 1..Len(units) : units[j].st = "ok"}}

\* download_assets returns from its last write_cache
PassReturns == PassDone /\ pc' \in {"idle", "none"}

\* C39: units that exhaust their retries never fail download_assets. Once
\* Downloader::download has returned, which it does with Ok whatever the
\* units met, download_assets goes on to write the cache whatever the error
\* list holds; when the write succeeds it returns Ok, publishes
\* DownloadAssets(Finish) and leaves the cache in the file, its hash set
\* holding only hashes of skipped entries and of entries whose unit was
\* written; it returns Err only when the write of the cache fails.
C39_UnitErrorsNeverFail ==
  /\ []((Downloading /\ dlpc = "returned" /\ bridgeDone) =>
          ENABLED FinishAssetsDownload(TRUE))
  /\ [][(Downloading /\ result' = "err") =>
          (dlpc = "returned" /\ bridgeDone /\ file' = file)]_vars
  /\ [][(PassReturns /\ file' = FileOf(cache)) =>
          /\ result' = "ok"
          /\ fetchState' = FState("DownloadAssets", "Finish", 0)
          /\ cache.downloaded_asset_hashes \subseteq
               SkippedHashes \cup WrittenHashes]_vars

\* what holds of C39: the same, the hash set holding only hashes of skipped
\* entries and the hashes url_hash_map keeps for the locations written
C39_ErrorsDoNotFailOperation ==
  /\ []((Downloading /\ dlpc = "returned" /\ bridgeDone) =>
          ENABLED FinishAssetsDownload(TRUE))
  /\ [][(Downloading /\ result' = "err") =>
          (dlpc = "returned" /\ bridgeDone /\ file' = file)]_vars
  /\ [][(PassReturns /\ file' = FileOf(cache)) =>
          /\ result' = "ok"
          /\ fetchState' = FState("DownloadAssets", "Finish", 0)
          /\ cache.downloaded_asset_hashes =
               InsertDownloaded(DownloadedUrls(results), work.map,
                                work.newHashes)
          /\ work.newHashes = SkippedHashes]_vars

\* the number of bridged states of the Downloader's state st that
\* download_assets has sent since it was called
Bridged(st) ==
  Cardinality({i \in 1..Len(eval.out) :
                 eval.out[i] = <<"DownloadAssets", "Download", st>>})

UnitsOf(st) == Cardinality({i \in 1..Len(units) : units[i].st = st})

\* C40: no progress of a unit is lost between the Downloader and the
\* Fetcher's channel: once the bridge has ended, it has sent one
\* Download(FileDownload) state for every unit the Downloader wrote, whatever
\* the interleaving of the units with the bridge.
C40_NoProgressLost ==
  (eval.f = "published" /\ Downloading /\ bridgeDone) =>
    Bridged("FileDownload") = UnitsOf("ok")

\* what holds of C40: the bridge sends at most one state for every unit
\* written and for every unit failed, never one the Downloader did not
\* publish, and ends by sending the Downloader's Finish; how many it sends
\* is left to the interleaving
C40_ProgressNeverInvented ==
  (eval.f = "published" /\ Downloading) =>
    /\ Bridged("FileDownload") <= UnitsOf("ok")
    /\ Bridged("DownloadError") <= UnitsOf("err")
    /\ Bridged("DownloadStart") <= 1
    /\ Bridged("Finish") = (IF bridgeDone THEN 1 ELSE 0)
    /\ bridgeDone => eval.out[Len(eval.out)] =
                       <<"DownloadAssets", "Download", "Finish">>

============================================================================
